---- MODULE Spec2Model ----
(***************************************************************************)
(* Model of jackal-bot: the bond-page extraction and ranking of            *)
(* top_bonds.get_top_yield_bonds and the cache of                          *)
(* telegram_bonds_bot.get_bonds_data, the report and message formatters,  *)
(* the subscription commands, the retry loop of the chat transport and the *)
(* two delivery loops.                                                     *)
(*                                                                         *)
(* Text is a sequence of one-character strings.  A float is a record       *)
(* [k, n, d]: k = "num" is the decimal n / d (d a power of ten), k = "nan" *)
(* is the IEEE not-a-number, k = "inf" is n * infinity (n = 1 or -1).      *)
(***************************************************************************)
EXTENDS Integers, Sequences, FiniteSets, TLC

VARIABLES
    page,             \* html_content: the tables found by table_pattern
    today,            \* datetime.date.today(), as a day number
    result,           \* what the last call of get_top_yield_bonds returned
    now,              \* time.time() of the bot process, in seconds
    last_fetch_time,  \* telegram_bonds_bot.last_fetch_time (None = NoTime)
    last_bonds_data,  \* telegram_bonds_bot.last_bonds_data (None = NoData)
    calls,            \* the last two calls of get_bonds_data, newest last
    records,          \* the list of records handed to a formatter
    printed,          \* the last two formatter runs, newest last
    subscribed_users, \* telegram_bonds_bot.subscribed_users
    subscription,     \* per chat, its last /subscribe or /unsubscribe command
    handled,          \* the last call of handle_command and how it ended
    retry_count,      \* retry_count of the running transport call
    retry_delay,      \* retry_delay of the running transport call
    request,          \* the transport call: function, arguments, position, log
    loop,             \* the delivery loop: program, position, last cycles
    last_update_id,   \* main: last_update_id (None before the first update)
    inbox,            \* the updates the chat server holds unconfirmed
    polled,           \* what the last pass of main did: offsets sent, updates taken
    last_daily_check, \* main: last_daily_check
    API_URL,          \* API_URL: None before main, then the address in use
    last_api_refresh, \* main: last_api_refresh
    daily             \* the runs of send_daily_updates

formatVars == <<records, printed>>

chatVars == <<subscribed_users, subscription, handled>>

retryVars == <<retry_count, retry_delay, request>>

mainVars == <<last_update_id, inbox, polled, last_daily_check, API_URL, last_api_refresh, daily>>

loopVars == <<loop, mainVars>>

auxVars == <<formatVars, chatVars, retryVars, loopVars>>

vars == <<page, today, result, now, last_fetch_time, last_bonds_data, calls, auxVars>>

botVars == <<now, last_fetch_time, last_bonds_data, calls>>

extractVars == <<page, today, result>>

(***************************************************************************)
(* Text                                                                    *)
(***************************************************************************)
Digits == {"0", "1", "2", "3", "4", "5", "6", "7", "8", "9"}

DigitVal(c) ==
    CASE c = "0" -> 0 [] c = "1" -> 1 [] c = "2" -> 2 [] c = "3" -> 3
      [] c = "4" -> 4 [] c = "5" -> 5 [] c = "6" -> 6 [] c = "7" -> 7
      [] c = "8" -> 8 [] c = "9" -> 9

RECURSIVE Pow10(_)
Pow10(k) == IF k = 0 THEN 1 ELSE 10 * Pow10(k - 1)

RECURSIVE LStrip(_)
LStrip(s) == IF s # <<>> /\ Head(s) = " " THEN LStrip(Tail(s)) ELSE s

RECURSIVE RStrip(_)
RStrip(s) ==
    IF s # <<>> /\ s[Len(s)] = " " THEN RStrip(SubSeq(s, 1, Len(s) - 1)) ELSE s

\* str.strip()
Strip(s) == RStrip(LStrip(s))

\* str.replace(old, new) for a one-character old; new is a text
RECURSIVE Replace(_, _, _)
Replace(s, old, new) ==
    IF s = <<>> THEN <<>>
    ELSE (IF Head(s) = old THEN new ELSE <<Head(s)>>) \o Replace(Tail(s), old, new)

\* index of the first c in s at or after position i, 0 when there is none
RECURSIVE Find(_, _, _)
Find(s, c, i) ==
    IF i > Len(s) THEN 0 ELSE IF s[i] = c THEN i ELSE Find(s, c, i + 1)

\* re.sub(r'<[^>]+>', '', s): every '<', one or more non-'>', '>' is removed
RECURSIVE StripTags(_)
StripTags(s) ==
    IF s = <<>> THEN <<>>
    ELSE IF Head(s) = "<" /\ Find(s, ">", 3) # 0 /\ (Len(s) >= 2 => s[2] # ">")
         THEN StripTags(SubSeq(s, Find(s, ">", 3) + 1, Len(s)))
         ELSE <<Head(s)>> \o StripTags(Tail(s))

\* str.split(sep) for a one-character sep
RECURSIVE Split(_, _)
Split(s, sep) ==
    LET i == Find(s, sep, 1)
    IN  IF i = 0 THEN <<s>>
        ELSE <<SubSeq(s, 1, i - 1)>> \o Split(SubSeq(s, i + 1, Len(s)), sep)

AllDigits(s) == s # <<>> /\ \A i \in 1..Len(s) : s[i] \in Digits

RECURSIVE DigitsVal(_)
DigitsVal(s) ==
    IF s = <<>> THEN 0 ELSE 10 * DigitsVal(SubSeq(s, 1, Len(s) - 1)) + DigitVal(s[Len(s)])

(***************************************************************************)
(* Floats                                                                  *)
(***************************************************************************)
Num(n, d) == [k |-> "num", n |-> n, d |-> d]

NaN == [k |-> "nan", n |-> 0, d |-> 1]

Inf(sign) == [k |-> "inf", n |-> sign, d |-> 1]

ValueError == [k |-> "ValueError", n |-> 0, d |-> 1]

Zero == Num(0, 1)

IsFinite(x) == x.k = "num"

\* x < y as Python compares floats: every comparison with nan is false
FloatLt(x, y) ==
    /\ x.k # "nan" /\ y.k # "nan"
    /\ \/ x.k = "num" /\ y.k = "num" /\ x.n * y.d < y.n * x.d
       \/ x.k = "num" /\ y.k = "inf" /\ y.n = 1
       \/ x.k = "inf" /\ x.n = -1 /\ y.k = "num"
       \/ x.k = "inf" /\ y.k = "inf" /\ x.n < y.n

FloatEq(x, y) ==
    /\ x.k # "nan" /\ y.k # "nan"
    /\ \/ x.k = "num" /\ y.k = "num" /\ x.n * y.d = y.n * x.d
       \/ x.k = "inf" /\ y.k = "inf" /\ x.n = y.n

FloatGe(x, y) == FloatLt(y, x) \/ FloatEq(x, y)

\* the unsigned part of a float literal: digits[.digits], .digits, inf, nan
ParseUnsigned(s, sign) ==
    LET dot == Find(s, ".", 1)
        ip  == IF dot = 0 THEN s ELSE SubSeq(s, 1, dot - 1)
        fp  == IF dot = 0 THEN <<>> ELSE SubSeq(s, dot + 1, Len(s))
    IN  IF s = <<"n", "a", "n">> THEN NaN
        ELSE IF s = <<"i", "n", "f">> THEN Inf(sign)
        ELSE IF /\ ip \o fp # <<>>
                /\ \A i \in 1..Len(ip) : ip[i] \in Digits
                /\ \A i \in 1..Len(fp) : fp[i] \in Digits
             THEN Num(sign * (DigitsVal(ip) * Pow10(Len(fp)) + DigitsVal(fp)),
                      Pow10(Len(fp)))
             ELSE ValueError

\* float(s) on texts over digits, sign, '.', ',', '%', ' ', '<', '>' and the
\* letters of the words used by the inputs: surrounding blanks are ignored, one
\* sign is allowed, "nan" and "inf" are numbers, anything else is a ValueError
ParseFloat(s) ==
    LET t == Strip(s)
    IN  IF t = <<>> THEN ValueError
        ELSE IF Head(t) = "-" THEN ParseUnsigned(Tail(t), -1)
        ELSE IF Head(t) = "+" THEN ParseUnsigned(Tail(t), 1)
        ELSE ParseUnsigned(t, 1)

\* the largest C int, the bound of datetime.date's arguments
CIntMax == 2147483647

\* datetime.MAXYEAR
MaxYear == 9999

\* the divisor of days_to_offer
DaysPerYear == 365

(***************************************************************************)
(* Calendar dates (datetime.date)                                          *)
(***************************************************************************)
IsLeap(y) == (y % 4 = 0 /\ y % 100 # 0) \/ y % 400 = 0

DaysInMonth(y, m) ==
    IF m = 2 THEN (IF IsLeap(y) THEN 29 ELSE 28)
    ELSE IF m \in {4, 6, 9, 11} THEN 30 ELSE 31

RECURSIVE DaysBeforeMonth(_, _)
DaysBeforeMonth(y, m) ==
    IF m = 1 THEN 0 ELSE DaysBeforeMonth(y, m - 1) + DaysInMonth(y, m - 1)

\* date(y, m, d).toordinal()
Ordinal(y, m, d) ==
    LET p == y - 1
    IN  365 * p + (p \div 4) - (p \div 100) + (p \div 400) + DaysBeforeMonth(y, m) + d

\* int(s): blanks stripped, one optional sign, decimal digits
IntOk(s) ==
    LET t == Strip(s)
    IN  /\ t # <<>>
        /\ IF Head(t) \in {"-", "+"} THEN AllDigits(Tail(t)) ELSE AllDigits(t)

RECURSIVE StripZeros(_)
StripZeros(s) == IF Len(s) > 1 /\ Head(s) = "0" THEN StripZeros(Tail(s)) ELSE s

\* a > b for two digit texts of the same length
RECURSIVE DigitsGt(_, _)
DigitsGt(a, b) ==
    IF a = <<>> THEN FALSE
    ELSE IF Head(a) # Head(b) THEN DigitVal(Head(a)) > DigitVal(Head(b))
    ELSE DigitsGt(Tail(a), Tail(b))

\* whether the integer written by s does not fit a C int
IntBig(s) ==
    LET t     == Strip(s)
        neg   == Head(t) = "-"
        ds    == StripZeros(IF Head(t) \in {"-", "+"} THEN Tail(t) ELSE t)
        limit == IF neg THEN <<"2", "1", "4", "7", "4", "8", "3", "6", "4", "8">>
                 ELSE <<"2", "1", "4", "7", "4", "8", "3", "6", "4", "7">>
    IN  Len(ds) > 10 \/ (Len(ds) = 10 /\ DigitsGt(ds, limit))

\* the value of int(s); an integer that does not fit a C int is kept as the
\* nearest C int, and IntBig tells the two apart
IntVal(s) ==
    LET t  == Strip(s)
        ds == IF Head(t) \in {"-", "+"} THEN Tail(t) ELSE t
    IN  IF IntBig(s) THEN (IF Head(t) = "-" THEN -CIntMax ELSE CIntMax)
        ELSE IF Head(t) = "-" THEN -DigitsVal(ds) ELSE DigitsVal(ds)

\* datetime.date(y, m, d) for the integers written by three texts, the year
\* after "year += 2000": "date", "ValueError" (a field out of range) or
\* "OverflowError" (a field that does not fit a C int)
DateCheck(y, m, d, big) ==
    IF big THEN "OverflowError"
    ELSE IF y < 1 \/ y > MaxYear \/ m < 1 \/ m > 12 \/ d < 1 THEN "ValueError"
    ELSE IF d > DaysInMonth(y, m) THEN "ValueError"
    ELSE "date"

(***************************************************************************)
(* str.format                                                              *)
(***************************************************************************)
DigitChar(i) == <<"0", "1", "2", "3", "4", "5", "6", "7", "8", "9">>[i + 1]

RECURSIVE IntToText(_)
IntToText(n) ==
    IF n < 10 THEN <<DigitChar(n)>> ELSE IntToText(n \div 10) \o <<DigitChar(n % 10)>>

\* a / b rounded to the nearest integer, ties to even (a >= 0, b > 0)
RoundDiv(a, b) ==
    LET q == a \div b
        r == a % b
    IN  IF 2 * r > b \/ (2 * r = b /\ q % 2 = 1) THEN q + 1 ELSE q

RECURSIVE ZeroPad(_, _)
ZeroPad(t, w) == IF Len(t) >= w THEN t ELSE ZeroPad(<<"0">> \o t, w)

\* "{:.<p>f}".format(x), rounding the decimal value of x
FormatFixed(x, p) ==
    IF x.k = "nan" THEN <<"n", "a", "n">>
    ELSE IF x.k = "inf" THEN (IF x.n < 0 THEN <<"-">> ELSE <<>>) \o <<"i", "n", "f">>
    ELSE LET a  == IF x.n < 0 THEN -x.n ELSE x.n
             sc == RoundDiv(a * Pow10(p), x.d)
             ip == IntToText(sc \div Pow10(p))
             fp == ZeroPad(IntToText(sc % Pow10(p)), p)
         IN  (IF x.n < 0 THEN <<"-">> ELSE <<>>) \o ip \o <<".">> \o fp

YearsSuffix == <<" ", "y", "e", "a", "r", "s">>

NA == <<"N", "/", "A">>

(***************************************************************************)
(* The page: what the regular expressions of get_top_yield_bonds see.      *)
(* A page is the sequence of its <table> blocks.  A table is               *)
(* [extra, trs]: trs are its <tr> blocks and extra the marker substrings   *)
(* found in its text outside the <th> cells.  A <tr> is [ths, tds]: a <th> *)
(* is the set of marker substrings its text contains, a <td> is            *)
(* [raw, anchor]: its text, and what the name pattern (an <a> whose title  *)
(* ends in a parenthesised ISIN) captures in it, <<>> or <<[isin, name]>>. *)
(***************************************************************************)
Markers == {"Name", "Yield", "Rating", "Maturity", "Offer"}

\* 'Доходн' in table, 'Рейтинг' in table
TableContains(t, m) ==
    \/ m \in t.extra
    \/ \E i \in 1..Len(t.trs) : \E j \in 1..Len(t.trs[i].ths) : m \in t.trs[i].ths[j]

\* the absent column index
None == -1

\* next((i for i, h in enumerate(headers) if marker in h), None), from 0
RECURSIVE IndexFrom(_, _, _)
IndexFrom(headers, m, i) ==
    IF i > Len(headers) THEN None
    ELSE IF m \in headers[i] THEN i - 1
    ELSE IndexFrom(headers, m, i + 1)

ColumnIndex(headers, m) == IndexFrom(headers, m, 1)

\* filter(None, [name_idx, ytm_idx, rating_idx, maturity_idx]): the indices
\* that are truthy, neither None nor 0
RequiredIndices(name_idx, ytm_idx, rating_idx, maturity_idx) ==
    {i \in {name_idx, ytm_idx, rating_idx, maturity_idx} : i # None /\ i # 0}

SetMax(S) == CHOOSE x \in S : \A y \in S : y <= x

\* cells[idx] of a Python list, idx from 0
Cell(cells, idx) == cells[idx + 1]

Present(cells, idx) == idx # None /\ idx < Len(cells)

(***************************************************************************)
(* One data row of get_top_yield_bonds (the body of "for row in rows[1:]") *)
(***************************************************************************)
\* name_html, name_match, isin, name
NameOf(cells, name_idx) ==
    LET has       == Present(cells, name_idx)
        name_html == IF has THEN Strip(Cell(cells, name_idx).raw) ELSE <<>>
        anchor    == IF has THEN Cell(cells, name_idx).anchor ELSE <<>>
    IN  IF anchor # <<>>
        THEN [isin |-> anchor[1].isin, name |-> anchor[1].name]
        ELSE [isin |-> NA, name |-> Strip(StripTags(name_html))]

\* ytm_text, ytm
YieldOf(cells, ytm_idx) ==
    LET raw      == IF Present(cells, ytm_idx) THEN Strip(Cell(cells, ytm_idx).raw)
                    ELSE <<"0">>
        ytm_text == Strip(Replace(Replace(raw, "%", <<>>), ",", <<".">>))
        ytm      == ParseFloat(ytm_text)
    IN  IF ytm = ValueError THEN Zero ELSE ytm

\* rating
RatingOf(cells, rating_idx) ==
    IF Present(cells, rating_idx) THEN Strip(Cell(cells, rating_idx).raw) ELSE NA

\* maturity_text, maturity, maturity_str
MaturityOf(cells, maturity_idx) ==
    LET maturity_text == IF Present(cells, maturity_idx)
                         THEN Strip(Cell(cells, maturity_idx).raw) ELSE <<>>
        maturity      == ParseFloat(Replace(maturity_text, ",", <<".">>))
    IN  IF maturity = ValueError
        THEN [maturity |-> Zero, maturity_str |-> NA]
        ELSE [maturity |-> maturity,
              maturity_str |-> FormatFixed(maturity, 1) \o YearsSuffix]

\* what the offer-date block leaves: offer_date, years_to_offer (<<>> is
\* None), and whether it raised an exception its own try does not catch
Offer(offer_date, years_to_offer, raised) ==
    [offer_date |-> offer_date, years_to_offer |-> years_to_offer, raised |-> raised]

\* if year < 100: year += 2000
FullYear(year) == IF year < 100 THEN year + 2000 ELSE year

\* the test of the days as days_to_offer >= 0
OfferFromDaysInclusive(text, days_to_offer) ==
    IF days_to_offer >= 0
    THEN Offer(text, <<Num(days_to_offer, DaysPerYear)>>, FALSE)
    ELSE Offer(NA, <<>>, FALSE)

\* days_to_offer > 0, or the offer date is in the past
OfferFromDays(text, days_to_offer) ==
    IF days_to_offer > 0
    THEN Offer(text, <<Num(days_to_offer, DaysPerYear)>>, FALSE)
    ELSE Offer(NA, <<>>, FALSE)

\* offer_date_obj = datetime.date(year, month, day) and what follows it
OfferFromDate(text, day, month, year, big, td) ==
    IF DateCheck(year, month, day, big) = "OverflowError" THEN Offer(text, <<>>, TRUE)
    ELSE IF DateCheck(year, month, day, big) = "ValueError" THEN Offer(text, <<>>, FALSE)
    ELSE OfferFromDays(text, Ordinal(year, month, day) - td)

\* day, month, year = map(int, offer_date.split('.'))
OfferFromParts(text, parts, td) ==
    IF ~(Len(parts) = 3 /\ \A i \in 1..3 : IntOk(parts[i]))
    THEN Offer(text, <<>>, FALSE)
    ELSE OfferFromDate(text, IntVal(parts[1]), IntVal(parts[2]),
                       FullYear(IntVal(parts[3])),
                       \E i \in 1..3 : IntBig(parts[i]), td)

\* the offer-date block for the cell text with its tags removed
OfferFromText(text, td) ==
    IF text = <<>> \/ text = <<"-">> THEN Offer(NA, <<>>, FALSE)
    ELSE IF text = NA THEN Offer(text, <<>>, FALSE)
    ELSE OfferFromParts(text, Split(text, "."), td)

\* offer_date and years_to_offer of a row
OfferOf(cells, offer_date_idx, td) ==
    IF ~Present(cells, offer_date_idx) THEN Offer(NA, <<>>, FALSE)
    ELSE OfferFromText(Strip(StripTags(Strip(Cell(cells, offer_date_idx).raw))), td)

\* the dictionary bond, with its optional keys
Bond(nm, ytm, rating, mat, off) ==
    LET base == [k \in {"ISIN", "Name", "Yield to Maturity", "Rating", "Maturity",
                        "Offer Date"} |->
                    CASE k = "ISIN" -> nm.isin
                      [] k = "Name" -> nm.name
                      [] k = "Yield to Maturity" -> ytm
                      [] k = "Rating" -> rating
                      [] k = "Maturity" -> mat.maturity_str
                      [] k = "Offer Date" -> off.offer_date]
    IN  IF off.years_to_offer = <<>> THEN base
        ELSE base @@ ("Years to Offer" :> off.years_to_offer[1])
                  @@ ("Years to Offer Str" :>
                         FormatFixed(off.years_to_offer[1], 1) \o YearsSuffix)

\* the loop body behind the offer-date block: "raise" (an exception leaves
\* the loop), "skip" (continue) or "bond" (bonds_list.append(bond))
RowOutcome(cells, idx, req, off) ==
    IF req = {} THEN [kind |-> "raise", bond |-> <<>>]
    ELSE IF Len(cells) <= SetMax(req) THEN [kind |-> "skip", bond |-> <<>>]
    ELSE IF off.raised THEN [kind |-> "raise", bond |-> <<>>]
    ELSE [kind |-> "bond",
          bond |-> Bond(NameOf(cells, idx.name), YieldOf(cells, idx.ytm),
                        RatingOf(cells, idx.rating),
                        MaturityOf(cells, idx.maturity), off)]

\* one pass of the loop body for the cells of a data row
ExtractRow(cells, idx, td) ==
    RowOutcome(cells, idx,
               RequiredIndices(idx.name, idx.ytm, idx.rating, idx.maturity),
               OfferOf(cells, idx.offer, td))

(***************************************************************************)
(* top_bonds.get_top_yield_bonds                                           *)
(***************************************************************************)
\* the key of sorted(): x['Yield to Maturity']
YieldKey(e) == e.bond["Yield to Maturity"]

\* where sorted(..., reverse=True) puts e in an already sorted list: behind
\* every entry, from the right, whose key is not less than its own
RECURSIVE InsertDesc(_, _)
InsertDesc(sorted, e) ==
    IF sorted # <<>> /\ FloatLt(YieldKey(sorted[Len(sorted)]), YieldKey(e))
    THEN InsertDesc(SubSeq(sorted, 1, Len(sorted) - 1), e) \o <<sorted[Len(sorted)]>>
    ELSE sorted \o <<e>>

\* sorted(bonds_list, key=lambda x: x['Yield to Maturity'], reverse=True)
RECURSIVE SortDesc(_)
SortDesc(list) ==
    IF list = <<>> THEN <<>>
    ELSE InsertDesc(SortDesc(SubSeq(list, 1, Len(list) - 1)), list[Len(list)])

\* list[:count]
Slice(list, count) ==
    IF count >= 0
    THEN SubSeq(list, 1, IF count < Len(list) THEN count ELSE Len(list))
    ELSE SubSeq(list, 1, IF Len(list) + count > 0 THEN Len(list) + count ELSE 0)

\* the first table that contains the yield marker
RECURSIVE SelectTableYieldOnly(_, _)
SelectTableYieldOnly(tables, i) ==
    IF i > Len(tables) THEN 0
    ELSE IF TableContains(tables[i], "Yield") THEN i
         ELSE SelectTableYieldOnly(tables, i + 1)

\* the first table that contains both markers, 0 when there is none
RECURSIVE SelectTable(_, _)
SelectTable(tables, i) ==
    IF i > Len(tables) THEN 0
    ELSE IF TableContains(tables[i], "Yield") /\ TableContains(tables[i], "Rating")
         THEN i
         ELSE SelectTable(tables, i + 1)

\* the five column indices found in the header row
HeaderMap(headers) ==
    [name     |-> ColumnIndex(headers, "Name"),
     ytm      |-> ColumnIndex(headers, "Yield"),
     rating   |-> ColumnIndex(headers, "Rating"),
     maturity |-> ColumnIndex(headers, "Maturity"),
     offer    |-> ColumnIndex(headers, "Offer")]

\* "return None", with the place it comes from
Failure(why) == [ok |-> FALSE, why |-> why, bonds |-> <<>>, rows |-> <<>>]

\* the outcome of the loop body for each of rows[1:]
RowOutcomes(trs, idx, td) ==
    [i \in 1..(Len(trs) - 1) |-> ExtractRow(trs[i + 1].tds, idx, td)]

\* bonds_list after the loop, each bond with the number of its data row
RECURSIVE BondsList(_, _)
BondsList(outcomes, i) ==
    IF i > Len(outcomes) THEN <<>>
    ELSE (IF outcomes[i].kind = "bond"
          THEN <<[row |-> i, bond |-> outcomes[i].bond]>> ELSE <<>>)
         \o BondsList(outcomes, i + 1)

\* return sorted_bonds[:count]
Returned(sorted_bonds) ==
    [ok    |-> TRUE,
     why   |-> "",
     bonds |-> [i \in 1..Len(sorted_bonds) |-> sorted_bonds[i].bond],
     rows  |-> [i \in 1..Len(sorted_bonds) |-> sorted_bonds[i].row]]

\* the end of the call: an exception raised in the loop gives None, else the
\* bonds are sorted and cut
Ranked(outcomes, count) ==
    IF \E i \in 1..Len(outcomes) : outcomes[i].kind = "raise" THEN Failure("exception")
    ELSE Returned(Slice(SortDesc(BondsList(outcomes, 1)), count))

\* the call from the column indices on
FromColumns(trs, idx, td, count) ==
    IF idx.ytm = None THEN Failure("no yield column")
    ELSE Ranked(RowOutcomes(trs, idx, td), count)

\* the call from the rows of the chosen table on
FromRows(trs, td, count) ==
    IF trs = <<>> THEN Failure("no header row")
    ELSE FromColumns(trs, HeaderMap(trs[1].ths), td, count)

\* the call from the choice of the table on
FromTable(tables, sel, td, count) ==
    IF sel = 0 THEN Failure("no bonds table") ELSE FromRows(tables[sel].trs, td, count)

\* get_top_yield_bonds(count) on the answer resp of the site, on the day td
GetTopYieldBonds(resp, td, count) ==
    IF resp.status # "ok" THEN Failure("URLError")
    ELSE IF resp.tables = <<>> THEN Failure("no tables")
    ELSE FromTable(resp.tables, SelectTable(resp.tables, 1), td, count)

(***************************************************************************)
(* Inputs                                                                  *)
(***************************************************************************)
\* the most data rows of a generated table
MaxRows == 2

\* the most columns of a generated header row
MaxCols == 5

Td(raw) == [raw |-> raw, anchor |-> <<>>]

\* <a title="... (isin)">name</a>
Link(isin, name) ==
    [raw    |-> <<"<", "a", ">">> \o name \o <<"<", "/", "a", ">">>,
     anchor |-> <<[isin |-> isin, name |-> name]>>]

Tr(cells) == [ths |-> <<>>, tds |-> cells]

HeaderTr(headers) == [ths |-> headers, tds |-> <<>>]

Response(tables) == [status |-> "ok", tables |-> tables]

\* every sequence of at most n elements of S
SeqsUpTo(S, n) == UNION {[1..k -> S] : k \in 0..n}

\* the header rows: the semantic columns in any order, each at most once and
\* any of them absent, behind zero or one column that matches no marker
HeaderRows(cols) ==
    LET inj == {h \in SeqsUpTo(Markers, cols) :
                   \A i, j \in 1..Len(h) : i # j => h[i] # h[j]}
        ths(h) == [i \in 1..Len(h) |-> {h[i]}]
    IN  {ths(h) : h \in inj} \cup {<<{}>> \o ths(h) : h \in inj}

\* the data row number r with k cells; every cell is a decimal number
ShapeRow(r, k) == Tr([j \in 1..k |-> Td(<<DigitChar(r), ",", DigitChar(j % 10)>>)])

\* pages for the column layout: one table whose text holds both markers,
\* any header row, and data rows of every cell count
LayoutPages(rows, cols) ==
    {Response(<<[extra |-> {"Yield", "Rating"},
                 trs   |-> <<HeaderTr(h)>> \o [r \in 1..Len(ks) |-> ShapeRow(r, ks[r])]]>>) :
        h \in HeaderRows(cols), ks \in SeqsUpTo(0..(cols + 1), rows)}

\* the arguments of get_top_yield_bonds
Counts == {-1, 0, 1, 2, 10}

\* datetime.date.today() of the runs
Todays == {Ordinal(2024, 6, 15)}

NotCalled == [called |-> FALSE, count |-> 0, ret |-> Failure("not called")]

NoTime == -1

NoData == <<>>

\* the chats that write to the bot
Chats == {101, 102}

\* no command yet
NoCommand == <<>>

\* nothing formatted, no command handled, no transport call, no loop started
FormatIdle == records = <<>> /\ printed = <<>>

ChatIdle ==
    /\ subscribed_users = {}
    /\ subscription = [c \in Chats |-> NoCommand]
    /\ handled = [chat_id |-> 0, command |-> NoCommand, branch |-> "", count |-> 0,
                  before |-> {}, raised |-> FALSE, replies |-> <<>>]

\* the arguments of a transport call that has none
NoArgs == [chat_id |-> 0, parse_mode |-> "", offset |-> 0]

RetryIdle ==
    /\ retry_count = 0
    /\ retry_delay = 0
    /\ request = [fn |-> "", args |-> NoArgs, pc |-> "idle", attempts |-> <<>>,
                  slept |-> <<>>, ret |-> ""]

\* datetime before main read the clock
NoDateTime == [day |-> None, hour |-> None, minute |-> None]

\* send_daily_updates has not run
NoRun == [invoked |-> FALSE, users |-> {}, fetched |-> FALSE, ok |-> FALSE, attempts |-> <<>>]

\* no update taken yet, none waiting at the server
MainIdle ==
    /\ last_update_id = None
    /\ inbox = <<>>
    /\ polled = [arrived |-> 0, sent |-> None, before |-> 0, taken |-> <<>>,
                  handed |-> <<>>, raised |-> FALSE,
                  neterror |-> FALSE, refreshed |-> FALSE, gap |-> 0]
    /\ last_daily_check = NoDateTime
    /\ API_URL = None
    /\ last_api_refresh = NoTime
    /\ daily = [started |-> None, runs |-> <<>>, last |-> NoRun]

LoopIdle ==
    loop = [program |-> "", pc |-> "idle", interval_hours |-> 0, raised |-> "",
            cycles |-> <<>>]

BotIdle ==
    /\ now = 1
    /\ last_fetch_time = NoTime
    /\ last_bonds_data = NoData
    /\ calls = <<>>
    /\ FormatIdle /\ ChatIdle /\ RetryIdle /\ LoopIdle /\ MainIdle

(***************************************************************************)
(* Extraction as a state machine: the page is the input, a step is one     *)
(* call of get_top_yield_bonds.                                            *)
(***************************************************************************)
Extract(count) ==
    /\ result' = [called |-> TRUE, count |-> count,
                  ret |-> GetTopYieldBonds(page, today, count)]
    /\ UNCHANGED <<page, today>>
    /\ UNCHANGED botVars
    /\ UNCHANGED auxVars

NextExtract == \E count \in Counts : Extract(count)

InitLayout ==
    /\ page \in LayoutPages(MaxRows, MaxCols)
    /\ today \in Todays
    /\ result = NotCalled
    /\ BotIdle

SpecLayout == InitLayout /\ [][NextExtract]_vars

\* the texts of the yield cells: 12.50%, 8,75%, 7, a word, nan
YieldTexts ==
    {<<"1", "2", ".", "5", "0", "%">>, <<"8", ",", "7", "5", "%">>, <<"7">>,
     <<"a", "b", "c">>, <<"n", "a", "n">>}

\* pages for the ranking: the columns name, yield and rating, and data rows
\* that differ in their yield cell only
RankPages(rows) ==
    LET row(y) == Tr(<<Link(<<"R", "U", "1">>, <<"B", "o", "n", "d">>), Td(y),
                       Td(<<"A", "A">>)>>)
    IN  {Response(<<[extra |-> {},
                     trs   |-> <<HeaderTr(<<{"Name"}, {"Yield"}, {"Rating"}>>)>>
                               \o [r \in 1..Len(ys) |-> row(ys[r])]]>>) :
            ys \in SeqsUpTo(YieldTexts, rows)}

InitRank ==
    /\ page \in RankPages(MaxRows + 1)
    /\ today \in Todays
    /\ result = NotCalled
    /\ BotIdle

SpecRank == InitRank /\ [][NextExtract]_vars

\* name cells: an anchor the name pattern matches, and text in a tag that it
\* does not match
NameCells == {Link(<<"R", "U", "1">>, <<"B", "o", "n", "d">>), Td(<<"<", "b", ">", "X", "<", "/", "b", ">">>)}

\* the texts of the maturity cells: 2,5, a word, nothing
MaturityTexts == {<<"2", ",", "5">>, <<"a", "b", "c">>, <<>>}

\* the texts of the offer-date cells on the day 15.06.2024: dates after it
\* with a 2-digit and a 4-digit year, the next day, the day itself, a day
\* before it, a dash, nothing, N/A, a dash in a tag, a word, two numbers, the
\* 31st of February, and a year that does not fit a C int
OfferTexts ==
    {<<"3", "1", ".", "1", "2", ".", "3", "0">>,
     <<"3", "1", ".", "1", "2", ".", "2", "0", "3", "0">>,
     <<"1", "6", ".", "0", "6", ".", "2", "4">>,
     <<"1", "5", ".", "0", "6", ".", "2", "0", "2", "4">>,
     <<"0", "1", ".", "0", "1", ".", "2", "0">>,
     <<"-">>, <<>>, NA, <<"<", "b", ">", "-", "<", "/", "b", ">">>,
     <<"a", "b", "c">>, <<"1", ".", "2">>,
     <<"3", "1", ".", "0", "2", ".", "2", "0", "3", "0">>,
     <<"1", ".", "1", ".", "9", "9", "9", "9", "9", "9", "9", "9", "9", "9", "9">>}

\* a data row under the header name, yield, rating, maturity, offer date
CellRow(n, y, m, o) == Tr(<<n, Td(y), Td(<<"A", "A">>), Td(m), Td(o)>>)

\* the rows whose cells hold any of the texts
CellRows ==
    {CellRow(n, y, m, o) : n \in NameCells, y \in YieldTexts, m \in MaturityTexts,
                           o \in OfferTexts}

\* a row with nothing wrong in it
GoodRow == CellRow(Link(<<"R", "U", "2">>, <<"G", "o", "o", "d">>), <<"9", ".", "5", "%">>, <<"2", ",", "5">>, <<"3", "1", ".", "1", "2", ".", "3", "0">>)

\* pages for the cell contents: the five columns, and one row of any content,
\* alone, before or behind a good row
CellPages ==
    LET table(rows) ==
            Response(<<[extra |-> {},
                        trs   |-> <<HeaderTr(<<{"Name"}, {"Yield"}, {"Rating"},
                                               {"Maturity"}, {"Offer"}>>)>> \o rows]>>)
    IN  UNION {{table(<<r>>), table(<<r, GoodRow>>), table(<<GoodRow, r>>)} :
                  r \in CellRows}

InitCells ==
    /\ page \in CellPages
    /\ today \in Todays
    /\ result = NotCalled
    /\ BotIdle

SpecCells == InitCells /\ [][NextExtract]_vars

\* the most <table> blocks of a generated page
MaxTables == 3

\* the table number k of a page, by the markers in its text: none, one of the
\* two, both in its header cells (with one bond, named after k), both outside
\* the header cells, both and no row at all
TableOfKind(kind, k) ==
    LET bond == Tr(<<Link(<<"R">> \o IntToText(k), <<"T">> \o IntToText(k)),
                     Td(<<"7">>), Td(<<"A", "A">>)>>)
        hdr(ths) == <<HeaderTr(ths)>>
    IN  CASE kind = "none"     -> [extra |-> {}, trs |-> hdr(<<{"Name"}>>) \o <<bond>>]
          [] kind = "yield"    -> [extra |-> {}, trs |-> hdr(<<{"Name"}, {"Yield"}>>) \o <<bond>>]
          [] kind = "rating"   -> [extra |-> {}, trs |-> hdr(<<{"Name"}, {}, {"Rating"}>>) \o <<bond>>]
          [] kind = "bonds"    -> [extra |-> {},
                                   trs |-> hdr(<<{"Name"}, {"Yield"}, {"Rating"}>>) \o <<bond>>]
          [] kind = "text"     -> [extra |-> {"Yield", "Rating"},
                                   trs |-> hdr(<<{"Name"}>>) \o <<bond>>]
          [] kind = "rowless"  -> [extra |-> {"Yield", "Rating"}, trs |-> <<>>]

TableKinds == {"none", "yield", "rating", "bonds", "text", "rowless"}

\* pages with up to n tables of any kinds, in any order
TablePages(n) ==
    {Response([k \in 1..Len(kinds) |-> TableOfKind(kinds[k], k)]) :
        kinds \in SeqsUpTo(TableKinds, n)}

InitTables ==
    /\ page \in TablePages(MaxTables)
    /\ today \in Todays
    /\ result = NotCalled
    /\ BotIdle

SpecTables == InitTables /\ [][NextExtract]_vars

(***************************************************************************)
(* telegram_bonds_bot.get_bonds_data                                       *)
(***************************************************************************)
\* the age, in seconds, below which the cached data is served
TTL == 3600

\* fetch at least 5 bonds
MinFetch == 5

\* fetch no more than 20 bonds
MaxFetch == 20

Max(a, b) == IF a > b THEN a ELSE b

Min(a, b) == IF a < b THEN a ELSE b

\* the freshness test with its comparison turned round
CacheFreshInverted(current_time, lft, lbd) ==
    /\ lft # NoTime /\ lft # 0
    /\ lbd # NoData
    /\ current_time - lft > TTL

\* last_fetch_time and last_bonds_data and current_time - last_fetch_time < 3600
CacheFresh(current_time, lft, lbd) ==
    /\ lft # NoTime /\ lft # 0
    /\ lbd # NoData
    /\ current_time - lft < TTL

\* the hit test with > for >=
CacheHitStrict(count, current_time, lft, lbd) ==
    CacheFresh(current_time, lft, lbd) /\ Len(lbd) > count

\* the hit test without the length of the cached list
CacheHitAnyLength(count, current_time, lft, lbd) == CacheFresh(current_time, lft, lbd)

\* the cached data is served: it is fresh and len(last_bonds_data) >= count
CacheHit(count, current_time, lft, lbd) ==
    CacheFresh(current_time, lft, lbd) /\ Len(lbd) >= count

\* the fetch count without the lower clamp
FetchCountAsAsked(count) == Min(count, MaxFetch)

\* fetch_count = min(max(count, 5), 20)
FetchCount(count) == Min(Max(count, MinFetch), MaxFetch)

\* the success test as "if bonds is not None"
FetchSucceededNotNone(fetched) == fetched.ok

\* "if bonds and len(bonds) > 0" for what get_top_yield_bonds returned
FetchSucceeded(fetched) == fetched.ok /\ Len(fetched.bonds) > 0

\* what a call of get_bonds_data did: its count and time, the cache it
\* found, the fetches it made and with which argument, what the fetcher
\* returned, what the call returns (ok is FALSE for None) and the cache it
\* leaves
Call(count, at, lft, lbd, fetches, fetch_count, fetched, ok, bonds, lft2, lbd2) ==
    [count |-> count, at |-> at,
     before_time |-> lft, before_data |-> lbd,
     fetches |-> fetches, fetch_count |-> fetch_count, fetched |-> fetched,
     ok |-> ok, bonds |-> bonds,
     after_time |-> lft2, after_data |-> lbd2]

\* the try block with the time of the fetch stored before the test of what
\* the fetcher returned
AfterFetchStamped(count, current_time, lft, lbd, fetch_count, fetched) ==
    IF FetchSucceeded(fetched)
    THEN Call(count, current_time, lft, lbd, 1, fetch_count, fetched,
              TRUE, Slice(fetched.bonds, count), current_time, fetched.bonds)
    ELSE Call(count, current_time, lft, lbd, 1, fetch_count, fetched,
              FALSE, <<>>, current_time, lbd)

\* the try block of get_bonds_data, bonds being what the fetcher returned
AfterFetch(count, current_time, lft, lbd, fetch_count, fetched) ==
    IF FetchSucceeded(fetched)
    THEN Call(count, current_time, lft, lbd, 1, fetch_count, fetched,
              TRUE, Slice(fetched.bonds, count), current_time, fetched.bonds)
    ELSE Call(count, current_time, lft, lbd, 1, fetch_count, fetched,
              FALSE, <<>>, lft, lbd)

\* one call get_bonds_data(count) at current_time with the cache (lft, lbd),
\* the site answering resp if it is asked
GetBondsDataCall(count, current_time, lft, lbd, resp, td) ==
    IF CacheHit(count, current_time, lft, lbd)
    THEN Call(count, current_time, lft, lbd, 0, 0, Failure("not called"),
              TRUE, Slice(lbd, count), lft, lbd)
    ELSE AfterFetch(count, current_time, lft, lbd, FetchCount(count),
                    GetTopYieldBonds(resp, td, FetchCount(count)))

\* what the history keeps of a call: its count and time, the cache it found,
\* the fetches it made and with which argument, whether the fetch gave
\* records and how many, and what it returned
Entry(call) ==
    [count |-> call.count, at |-> call.at,
     before_time |-> call.before_time, before_data |-> call.before_data,
     fetches |-> call.fetches, fetch_count |-> call.fetch_count,
     fetched_ok |-> call.fetches = 1 /\ FetchSucceeded(call.fetched),
     fetched_n |-> Len(call.fetched.bonds),
     ok |-> call.ok, bonds |-> call.bonds]

\* an older entry keeps the lengths of its lists only
Older(e) ==
    [e EXCEPT !.before_data = [i \in 1..Len(e.before_data) |-> i],
              !.bonds = [i \in 1..Len(e.bonds) |-> i]]

\* the history with one more call: it keeps the last two calls
Logged(log, call) ==
    IF log = <<>> THEN <<Entry(call)>> ELSE <<Older(log[Len(log)]), Entry(call)>>

\* the bond page of the site with n bonds: the columns name, yield, rating
SitePage(n) ==
    LET row(r) == Tr(<<Link(<<"R">> \o IntToText(r), <<"B">> \o IntToText(r)),
                       Td(IntToText(r % 7) \o <<",", "5", "%">>),
                       Td(<<"A", "A">>)>>)
    IN  Response(<<[extra |-> {},
                    trs   |-> <<HeaderTr(<<{"Name"}, {"Yield"}, {"Rating"}>>)>>
                              \o [r \in 1..n |-> row(r)]]>>)

\* the most bonds the site lists on its page
MaxBonds == 21

\* what the site may answer to a fetch: no answer, and bond pages with no,
\* few and many bonds
SiteResponses ==
    {[status |-> "URLError", tables |-> <<>>]}
        \cup {SitePage(n) : n \in {0, 3, 6, MaxBonds}}

\* the counts the bot asks for: handle_command clamps to 1..20
BotCounts == {1, 5, 6, 20}

\* the readings of time.time() at which something happens
Times == {1, 2, 3600, 3601}

\* a call of get_bonds_data(count) on the cache when time.time() reads t; the
\* site answers resp if it is asked
GetBondsDataAt(count, t, resp) ==
    \E call \in {GetBondsDataCall(count, t, last_fetch_time, last_bonds_data,
                                  resp, today)} :
        /\ call.fetches = 0 => resp = SitePage(0)
        /\ last_fetch_time' = call.after_time
        /\ last_bonds_data' = call.after_data
        /\ calls' = Logged(calls, call)
        /\ result' = IF call.fetches = 0 THEN result
                      ELSE [called |-> TRUE, count |-> call.fetch_count,
                            ret |-> call.fetched]

\* a call of get_bonds_data(count) now
GetBondsDataStep(count, resp) == GetBondsDataAt(count, now, resp)

\* a call of get_bonds_data(count) and nothing else
GetBondsData(count, resp) ==
    /\ GetBondsDataStep(count, resp)
    /\ UNCHANGED <<page, now, today>>
    /\ UNCHANGED auxVars

\* time passes
Tick(t) ==
    /\ t > now
    /\ now' = t
    /\ UNCHANGED <<page, today, result, last_fetch_time, last_bonds_data, calls>>
    /\ UNCHANGED auxVars

Init ==
    /\ page = Response(<<>>)
    /\ today \in Todays
    /\ result = NotCalled
    /\ BotIdle

Next ==
    \/ \E count \in BotCounts, resp \in SiteResponses : GetBondsData(count, resp)
    \/ \E t \in Times : Tick(t)

Spec == Init /\ [][Next]_vars

(***************************************************************************)
(* The formatters: top_bonds.print_table, the report of                    *)
(* bonds_scheduler.get_bonds_data and                                      *)
(* telegram_bonds_bot.format_bonds_message.  An output is the sequence of  *)
(* its lines.  A record is a function from column names to values: texts,  *)
(* and for the yield a float or PyNone.  A sentence the program writes as  *)
(* it stands is one element of a line, given in English.                   *)
(***************************************************************************)
\* columns of print_table, and of the report
TableColumns ==
    <<"ISIN", "Name", "Yield to Maturity", "Rating", "Maturity", "Offer Date",
      "Years to Offer Str">>

ReportColumns == <<"ISIN", "Name", "Yield to Maturity", "Rating", "Maturity">>

\* the characters of a column name
Label(col) ==
    CASE col = "ISIN" -> <<"I", "S", "I", "N">>
      [] col = "Name" -> <<"N", "a", "m", "e">>
      [] col = "Yield to Maturity" -> <<"Y", "i", "e", "l", "d", " ", "t", "o", " ", "M", "a", "t", "u", "r", "i", "t", "y">>
      [] col = "Rating" -> <<"R", "a", "t", "i", "n", "g">>
      [] col = "Maturity" -> <<"M", "a", "t", "u", "r", "i", "t", "y">>
      [] col = "Offer Date" -> <<"O", "f", "f", "e", "r", " ", "D", "a", "t", "e">>
      [] col = "Years to Offer Str" -> <<"Y", "e", "a", "r", "s", " ", "t", "o", " ", "O", "f", "f", "e", "r", " ", "S", "t", "r">>

\* the value None of a yield
PyNone == [k |-> "None", n |-> 0, d |-> 1]

\* value_str for a value found under col
ValueStr(col, value) ==
    IF col = "Yield to Maturity"
    THEN (IF value = PyNone THEN NA ELSE FormatFixed(value, 2) \o <<"%">>)
    ELSE value

\* the width as the length of the last value
WidenLast(width, value_str) == Len(value_str)

\* the width of a column after one more value
Widen(width, value_str) == Max(width, Len(value_str))

\* widths[col] after the items up to the i-th: it starts at len(col), and
\* only an item that has the column widens it
RECURSIVE WidthOf(_, _, _)
WidthOf(col, data, i) ==
    IF i = 0 THEN Len(Label(col))
    ELSE IF col \in DOMAIN data[i]
         THEN Widen(WidthOf(col, data, i - 1), ValueStr(col, data[i][col]))
         ELSE WidthOf(col, data, i - 1)

\* the dictionary widths
Widths(columns, data) ==
    [col \in {columns[j] : j \in 1..Len(columns)} |-> WidthOf(col, data, Len(data))]

\* " " * n
Blanks(n) == [j \in 1..n |-> " "]

\* str.ljust(width)
LJust(s, width) == s \o Blanks(width - Len(s))

\* " | ".join(cells)
RECURSIVE Join(_)
Join(cells) ==
    IF cells = <<>> THEN <<>>
    ELSE IF Len(cells) = 1 THEN cells[1]
    ELSE cells[1] \o <<" ", "|", " ">> \o Join(Tail(cells))

\* c * n
Dashes(c, n) == [j \in 1..n |-> c]

HeaderLine(columns, widths) ==
    Join([j \in 1..Len(columns) |-> LJust(Label(columns[j]), widths[columns[j]])])

\* the row of an item raises ValueError: item.get gives the text "N/A" for a
\* missing yield, and "{:.2f}%".format of a text raises
RowRaises(item) == "Yield to Maturity" \notin DOMAIN item

\* value_str of item.get(col, "N/A") in a row that does not raise
RowValue(item, col) == IF col \in DOMAIN item THEN ValueStr(col, item[col]) ELSE NA

RowLine(item, columns, widths) ==
    Join([j \in 1..Len(columns) |->
             LJust(RowValue(item, columns[j]), widths[columns[j]])])

\* the row lines up to the first item whose row raises
RECURSIVE RowLines(_, _, _, _)
RowLines(data, columns, widths, i) ==
    IF i > Len(data) \/ RowRaises(data[i]) THEN <<>>
    ELSE <<RowLine(data[i], columns, widths)>> \o RowLines(data, columns, widths, i + 1)

\* header line, rule and row lines, and whether a row raised
Table(data, columns, widths) ==
    [widths |-> widths,
     raised |-> \E i \in 1..Len(data) : RowRaises(data[i]),
     lines  |-> <<HeaderLine(columns, widths),
                  Dashes("-", Len(HeaderLine(columns, widths)))>>
                \o RowLines(data, columns, widths, 1)]

\* print_table(data): what it printed and whether it raised
PrintTableOf(data) ==
    IF data = <<>>
    THEN [widths |-> <<>>, raised |-> FALSE, lines |-> <<<<"No data to display.">>>>]
    ELSE Table(data, TableColumns, Widths(TableColumns, data))

\* the length of the rule under the title of the report
RuleLength == 80

\* datetime.datetime.now().strftime("%Y-%m-%d %H:%M:%S")
Strftime(at) ==
    ZeroPad(IntToText(at.year), 4) \o <<"-">> \o ZeroPad(IntToText(at.month), 2)
        \o <<"-">> \o ZeroPad(IntToText(at.day), 2) \o <<" ">>
        \o ZeroPad(IntToText(at.hour), 2) \o <<":">> \o ZeroPad(IntToText(at.minute), 2)
        \o <<":">> \o ZeroPad(IntToText(at.second), 2)

\* the report around the table of the fetched bonds
ReportOf(table, at) ==
    IF table.raised THEN <<<<"An error occurred while getting the data: ValueError">>>>
    ELSE <<<<"Top-10 bonds with the highest yield to maturity:">>,
           Dashes("=", RuleLength)>>
         \o table.lines
         \o <<<<>>, <<"Data from smart-lab.ru">>,
              <<"Report generated: ">> \o Strftime(at)>>

\* bonds_scheduler.get_bonds_data() when the fetcher returns fetched and the
\* clock reads at: the text it returns, the widths it used
SchedulerReport(fetched, at) ==
    IF ~(fetched.ok /\ Len(fetched.bonds) > 0)
    THEN [widths |-> <<>>, raised |-> FALSE, lines |-> <<<<"Could not get the bonds data.">>>>]
    ELSE [widths |-> Widths(ReportColumns, fetched.bonds),
          raised |-> FALSE,
          lines  |-> ReportOf(Table(fetched.bonds, ReportColumns,
                                    Widths(ReportColumns, fetched.bonds)), at)]

\* item.get(key, "N/A") of a text
GetText(item, key) == IF key \in DOMAIN item THEN item[key] ELSE NA

\* ytm of format_bonds_message
MessageYield(item) ==
    IF "Yield to Maturity" \in DOMAIN item /\ item["Yield to Maturity"] # PyNone
    THEN FormatFixed(item["Yield to Maturity"], 2) \o <<"%">>
    ELSE NA

\* tinvest_link
Link2(isin) ==
    IF isin # NA THEN <<"https://www.tinkoff.ru/invest/bonds/">> \o isin \o <<"/">>
    ELSE <<"#">>

\* the decoration for a position counted from 0
PositionEmojiFromZero(i) ==
    IF i = 0 THEN "gold medal" ELSE IF i = 1 THEN "silver medal"
    ELSE IF i = 2 THEN "bronze medal" ELSE "medal"

\* position_emoji
PositionEmoji(i) ==
    IF i = 1 THEN "gold medal" ELSE IF i = 2 THEN "silver medal"
    ELSE IF i = 3 THEN "bronze medal" ELSE "medal"

\* the lines of the i-th bond
MessageBlock(item, i) ==
    <<<<PositionEmoji(i), " <b>">> \o IntToText(i) \o <<". <a href='">>
          \o Link2(GetText(item, "ISIN")) \o <<"'>">> \o GetText(item, "Name")
          \o <<"</a></b> (">> \o GetText(item, "ISIN") \o <<")">>,
      <<"   Yield: <b>">> \o MessageYield(item) \o <<"</b>">>,
      <<"   Rating: ">> \o GetText(item, "Rating"),
      <<"   Maturity: ">> \o GetText(item, "Maturity")>>
    \o (IF "Years to Offer Str" \in DOMAIN item
        THEN <<<<"   To offer: ">> \o item["Years to Offer Str"]>> ELSE <<>>)
    \o <<<<>>>>

RECURSIVE MessageBlocks(_, _)
MessageBlocks(bonds, i) ==
    IF i > Len(bonds) THEN <<>>
    ELSE MessageBlock(bonds[i], i) \o MessageBlocks(bonds, i + 1)

\* format_bonds_message(bonds, count)
FormatBondsMessage(bonds, count) ==
    IF bonds = <<>> THEN <<<<"Could not get the bonds data.">>>>
    ELSE <<<<"<b>Top-">> \o IntToText(count)
              \o <<" bonds with the highest yield to maturity:</b>">>, <<>>>>
         \o MessageBlocks(bonds, 1)
         \o <<<<"<i>Data from smart-lab.ru</i>">>>>

\* the most records of a generated list
MaxRecords == 2

\* a record as extraction builds it, with short and with long values
ShortItem ==
    ("ISIN" :> <<"R", "U", "1">>) @@ ("Name" :> <<"B", "o", "n", "d">>)
        @@ ("Yield to Maturity" :> Num(1250, 100)) @@ ("Rating" :> <<"A", "A">>)
        @@ ("Maturity" :> NA) @@ ("Offer Date" :> NA)

LongItem ==
    ("ISIN" :> <<"R", "U", "0", "0", "0", "A", "0", "J", "X", "0", "J", "2">>)
        @@ ("Name" :> <<"B", "o", "n", "d", " ", "o", "f", " ", "a", " ", "l", "o", "n", "g", " ", "n", "a", "m", "e">>)
        @@ ("Yield to Maturity" :> Num(12345678, 1000))
        @@ ("Rating" :> <<"r", "u", "B", "B", "B", "+">>)
        @@ ("Maturity" :> <<"1", "2", ".", "5", " ", "y", "e", "a", "r", "s">>)
        @@ ("Offer Date" :> <<"3", "1", ".", "1", "2", ".", "2", "0", "3", "0">>)
        @@ ("Years to Offer Str" :> <<"6", ".", "5", " ", "y", "e", "a", "r", "s", " ", "o", "f", " ", "w", "a", "i", "t", "i", "n", "g">>)

Without(item, col) == [k \in (DOMAIN item) \ {col} |-> item[k]]

\* records for the formatters: the two above, the long one without any one
\* of its columns, and a yield of None
FormatItems ==
    {ShortItem, LongItem, [ShortItem EXCEPT !["Yield to Maturity"] = PyNone]}
        \cup {Without(LongItem, TableColumns[j]) : j \in 1..Len(TableColumns)}

\* the readings of the clock of the scheduler, one second apart
ClockReadings ==
    {[year |-> 2024, month |-> 6, day |-> 15, hour |-> 10, minute |-> 0, second |-> s] :
        s \in {0, 1}}

\* a formatter run: which formatter, the list it was given (given is FALSE
\* when the fetcher gave None), its count, the second of the clock, and what
\* it gave
Run(style, fetched, count, at, out) ==
    [style |-> style, given |-> fetched.ok,
     data |-> IF fetched.ok THEN fetched.bonds ELSE <<>>,
     count |-> count, at |-> at, raised |-> out.raised,
     widths |-> out.widths, lines |-> out.lines]

\* the records as a list handed to a formatter
Given(data) == [ok |-> TRUE, bonds |-> data]

Printed(log, run) == IF log = <<>> THEN <<run>> ELSE <<log[Len(log)], run>>

\* print_table(records)
PrintTable ==
    /\ printed' = Printed(printed, Run("table", Given(records), 0, 0, PrintTableOf(records)))
    /\ UNCHANGED <<records, chatVars, retryVars, loopVars>>
    /\ UNCHANGED <<extractVars, botVars>>

\* bonds_scheduler.get_bonds_data(): the fetcher returns the records, or
\* fails, and the clock reads at
Report(fetched, at) ==
    /\ \A i \in 1..Len(printed) : printed[i].style = "report" => printed[i].at <= at.second
    /\ printed' = Printed(printed, Run("report", fetched, 10, at.second, SchedulerReport(fetched, at)))
    /\ UNCHANGED <<records, chatVars, retryVars, loopVars>>
    /\ UNCHANGED <<extractVars, botVars>>

\* format_bonds_message(records, count)
FormatMessage(count) ==
    /\ printed' = Printed(printed,
                          Run("message", Given(records), count, 0,
                              [raised |-> FALSE, widths |-> <<>>,
                               lines |-> FormatBondsMessage(records, count)]))
    /\ UNCHANGED <<records, chatVars, retryVars, loopVars>>
    /\ UNCHANGED <<extractVars, botVars>>

InitFormat ==
    /\ page = Response(<<>>)
    /\ today \in Todays
    /\ result = NotCalled
    /\ now = 1 /\ last_fetch_time = NoTime /\ last_bonds_data = NoData /\ calls = <<>>
    /\ records \in SeqsUpTo(FormatItems, MaxRecords)
    /\ printed = <<>>
    /\ ChatIdle /\ RetryIdle /\ LoopIdle /\ MainIdle

NextFormat ==
    \/ PrintTable
    \/ \E at \in ClockReadings :
          \/ Report(Given(records), at)
          \/ Report(Failure("URLError"), at)
    \/ \E count \in {5, 10} : FormatMessage(count)

SpecFormat == InitFormat /\ [][NextFormat]_vars

(***************************************************************************)
(* telegram_bonds_bot.handle_command                                       *)
(***************************************************************************)
\* the texts of the commands
CmdStart == <<"/", "s", "t", "a", "r", "t">>

CmdHelp == <<"/", "h", "e", "l", "p">>

CmdSubscribe == <<"/", "s", "u", "b", "s", "c", "r", "i", "b", "e">>

CmdUnsubscribe == <<"/", "u", "n", "s", "u", "b", "s", "c", "r", "i", "b", "e">>

CmdStatus == <<"/", "s", "t", "a", "t", "u", "s">>

CmdBonds == <<"/", "b", "o", "n", "d", "s">>

\* the texts the chats send: the commands, /bonds with an argument, and texts
\* that are no command
Commands ==
    {CmdStart, CmdHelp, CmdSubscribe, CmdUnsubscribe, CmdStatus, CmdBonds,
     <<"/", "b", "o", "n", "d", "s", " ", "1", "0">>,
     <<"/", "s", "u", "b", "s", "c", "r", "i", "b", "e", " ", "n", "o", "w">>,
     <<"h", "e", "l", "l", "o">>}

\* str.startswith
StartsWith(s, prefix) == Len(s) >= Len(prefix) /\ SubSeq(s, 1, Len(prefix)) = prefix

\* str.split() on blanks
Words(s) == SelectSeq(Split(s, " "), LAMBDA w : w # <<>>)

\* count when /bonds has no argument, or one that is no integer
DefaultCount == 5

\* the range of the count of /bonds
MinCount == 1

MaxCount == 20

\* count taken from the argument as it is written
BondsCountUnclamped(command) ==
    IF Len(Words(command)) > 1 /\ IntOk(Words(command)[2])
    THEN IntVal(Words(command)[2])
    ELSE DefaultCount

\* count of the /bonds branch
BondsCount(command) ==
    IF Len(Words(command)) > 1 /\ IntOk(Words(command)[2])
    THEN Max(MinCount, Min(MaxCount, IntVal(Words(command)[2])))
    ELSE DefaultCount

\* set.add(x)
SetAdd(set, x) == [raised |-> FALSE, set |-> set \cup {x}]

\* set.remove(x): KeyError when x is not in the set
SetRemove(set, x) == [raised |-> x \notin set, set |-> set \ {x}]

\* the /subscribe branch with the set made anew from the sender
SubscribeAlone(users, chat_id) ==
    [users   |-> {chat_id},
     raised  |-> FALSE,
     replies |-> <<"subscribed">>]

\* the /subscribe branch: the users after it, the reply, whether it raised
Subscribe(users, chat_id) ==
    [users   |-> SetAdd(users, chat_id).set,
     raised  |-> SetAdd(users, chat_id).raised,
     replies |-> <<"subscribed">>]

\* the /unsubscribe branch with no test of the membership
UnsubscribeUnguarded(users, chat_id) ==
    [users   |-> SetRemove(users, chat_id).set,
     raised  |-> SetRemove(users, chat_id).raised,
     replies |-> IF SetRemove(users, chat_id).raised THEN <<>> ELSE <<"unsubscribed">>]

\* the /unsubscribe branch
Unsubscribe(users, chat_id) ==
    IF chat_id \in users
    THEN [users   |-> SetRemove(users, chat_id).set,
          raised  |-> SetRemove(users, chat_id).raised,
          replies |-> <<"unsubscribed">>]
    ELSE [users |-> users, raised |-> FALSE, replies |-> <<"was not subscribed">>]

\* the branch of handle_command a text takes
Branch(command) ==
    IF command = CmdStart THEN "start"
    ELSE IF command = CmdHelp THEN "help"
    ELSE IF command = CmdSubscribe THEN "subscribe"
    ELSE IF command = CmdUnsubscribe THEN "unsubscribe"
    ELSE IF command = CmdStatus THEN "status"
    ELSE IF StartsWith(command, CmdBonds) THEN "bonds"
    ELSE "unknown"

\* subscribed_users after the command, the replies and whether it raised
\* (the /bonds branch apart)
Handled(users, chat_id, command) ==
    CASE Branch(command) = "subscribe" -> Subscribe(users, chat_id)
      [] Branch(command) = "unsubscribe" -> Unsubscribe(users, chat_id)
      [] OTHER -> [users |-> users, raised |-> FALSE, replies |-> <<Branch(command)>>]

\* the replies of the /bonds branch after get_bonds_data returned
BondsReplies(entry) ==
    IF entry.ok /\ Len(entry.bonds) > 0 THEN <<"fetching", "bonds message">>
    ELSE <<"fetching", "no data">>

\* what the record of the last command keeps
HandledCall(chat_id, command, count, before, out, replies) ==
    [chat_id |-> chat_id, command |-> command, branch |-> Branch(command),
     count |-> count, before |-> before, raised |-> out.raised, replies |-> replies]

\* the last command of the chat that was /subscribe or /unsubscribe
LastSubscription(subs, chat_id, command) ==
    IF Branch(command) \in {"subscribe", "unsubscribe"}
    THEN [subs EXCEPT ![chat_id] = command]
    ELSE subs

\* handle_command(chat_id, command, user_first_name); the site answers resp
\* if the /bonds branch fetches
HandleCommand(chat_id, command, resp) ==
    /\ subscribed_users' = Handled(subscribed_users, chat_id, command).users
    /\ subscription' = LastSubscription(subscription, chat_id, command)
    /\ IF Branch(command) = "bonds"
       THEN /\ GetBondsDataStep(BondsCount(command), resp)
            /\ handled' = HandledCall(chat_id, command, BondsCount(command),
                                      subscribed_users,
                                      Handled(subscribed_users, chat_id, command),
                                      BondsReplies(calls'[Len(calls')]))
       ELSE /\ resp = SitePage(0)
            /\ handled' = HandledCall(chat_id, command, 0, subscribed_users,
                                      Handled(subscribed_users, chat_id, command),
                                      Handled(subscribed_users, chat_id, command).replies)
            /\ UNCHANGED <<last_fetch_time, last_bonds_data, calls, result>>
    /\ UNCHANGED <<page, now, today>>
    /\ UNCHANGED <<formatVars, retryVars, loopVars>>

\* what the site answers while commands are handled: a page with no bonds,
\* a page with six
CommandResponses == {SitePage(0), SitePage(6)}

\* the readings of the clock while commands are handled
CommandTimes == {3601}

NextCommands ==
    \/ \E chat_id \in Chats, command \in Commands, resp \in CommandResponses :
          HandleCommand(chat_id, command, resp)
    \/ \E t \in CommandTimes : Tick(t)

SpecCommands == Init /\ [][NextCommands]_vars

(***************************************************************************)
(* The transport calls send_message, get_updates and delete_webhook: one   *)
(* retry loop, written three times.                                        *)
(***************************************************************************)
\* max_retries
MaxRetries == 3

\* retry_delay at the start of a call
InitialDelay == 1

\* the factor of retry_delay *= 2
Backoff == 2

\* the calls of the transport functions and their arguments
TransportCalls ==
    {[fn |-> "send_message", args |-> [NoArgs EXCEPT !.chat_id = c, !.parse_mode = m]] :
        c \in Chats, m \in {"", "HTML"}}
    \cup {[fn |-> "get_updates", args |-> [NoArgs EXCEPT !.offset = o]] : o \in {0, 5}}
    \cup {[fn |-> "delete_webhook", args |-> NoArgs]}

\* how a request attempt may end: a JSON object or a JSON array comes back,
\* the body is no JSON, urlopen raises URLError or its subclass HTTPError,
\* or the read of the body times out
AttemptOutcomes == {"object", "array", "not json", "URLError", "HTTPError", "socket.timeout"}

\* the exception the body of the try raises, "" for none: json.loads raises
\* on a body that is no JSON, and result.get of delete_webhook on an array
RaisedBy(fn, outcome) ==
    CASE outcome \in {"URLError", "HTTPError", "socket.timeout"} -> outcome
      [] outcome = "not json" -> "JSONDecodeError"
      [] outcome = "array" -> IF fn = "delete_webhook" THEN "AttributeError" ELSE ""
      [] OTHER -> ""

\* the except clause that catches an exception
Handler(exc) ==
    IF exc \in {"URLError", "HTTPError"} THEN "URLError"
    ELSE IF exc \in {"socket.timeout", "JSONDecodeError", "AttributeError"} THEN "Exception"
    ELSE "propagate"

\* the test before the sleep, taken after the last attempt too
MayRetryInclusive(count) == count <= MaxRetries

\* if retry_count < max_retries, after retry_count += 1
MayRetry(count) == count < MaxRetries

\* a call starts: retry_count = 0, retry_delay = 1
StartCall(call) ==
    /\ request.pc \in {"idle", "returned"}
    /\ retry_count' = 0
    /\ retry_delay' = InitialDelay
    /\ request' = [fn |-> call.fn, args |-> call.args, pc |-> "loop",
                   attempts |-> <<>>, slept |-> <<>>, ret |-> ""]
    /\ UNCHANGED <<extractVars, botVars, formatVars, chatVars, loopVars>>

\* one pass of the while loop up to the sleep: the request is made and ends
\* with outcome
Attempt(outcome) ==
    /\ request.pc = "loop"
    /\ retry_count < MaxRetries
    /\ \E exc \in {RaisedBy(request.fn, outcome)} :
          IF exc = ""
          THEN /\ request' = [request EXCEPT !.pc = "returned", !.ret = outcome,
                                              !.attempts = Append(@, outcome)]
               /\ UNCHANGED <<retry_count, retry_delay>>
          ELSE IF Handler(exc) = "URLError"
          THEN /\ retry_count' = retry_count + 1
               /\ request' = [request EXCEPT
                                 !.pc = IF MayRetry(retry_count') THEN "sleeping" ELSE "returned",
                                 !.ret = IF MayRetry(retry_count') THEN "" ELSE "None",
                                 !.attempts = Append(@, outcome)]
               /\ UNCHANGED retry_delay
          ELSE /\ request' = [request EXCEPT
                                 !.pc = "returned",
                                 !.ret = IF Handler(exc) = "Exception" THEN "None" ELSE "raise",
                                 !.attempts = Append(@, outcome)]
               /\ UNCHANGED <<retry_count, retry_delay>>
    /\ UNCHANGED <<extractVars, botVars, formatVars, chatVars, loopVars>>

\* time.sleep(retry_delay); retry_delay *= 2
Sleep ==
    /\ request.pc = "sleeping"
    /\ request' = [request EXCEPT !.pc = "loop", !.slept = Append(@, retry_delay)]
    /\ retry_delay' = retry_delay * Backoff
    /\ UNCHANGED retry_count
    /\ UNCHANGED <<extractVars, botVars, formatVars, chatVars, loopVars>>

NextRetry ==
    \/ \E call \in TransportCalls : StartCall(call)
    \/ \E outcome \in AttemptOutcomes : Attempt(outcome)
    \/ Sleep

SpecRetry == Init /\ [][NextRetry]_vars

(***************************************************************************)
(* The delivery loops: the polling loop of telegram_bonds_bot.main and     *)
(* the loop of bonds_scheduler.run_scheduled_report.                       *)
(***************************************************************************)
\* the most cycles of a loop that are followed
MaxCycles == 3

\* what may go wrong in a cycle of the bot: the fetch of the bond page, a
\* send, getUpdates, an update without the expected fields, the interrupt
BotFailures ==
    {"none", "fetch failure", "send failure", "get_updates failure", "malformed update",
     "KeyboardInterrupt"}

\* the exception that reaches the try of the polling loop, "" for none:
\* get_bonds_data, send_message and get_updates return None on a failure
BotRaised(failure) ==
    CASE failure = "malformed update" -> "KeyError"
      [] failure = "KeyboardInterrupt" -> "KeyboardInterrupt"
      [] OTHER -> ""

\* the except clause of the polling loop that takes the exception
BotHandler(exc) ==
    IF exc = "" THEN "none"
    ELSE IF exc = "KeyboardInterrupt" THEN "break"
    ELSE IF exc \in {"URLError", "HTTPError"} THEN "refresh"
    ELSE "Exception"

\* what may go wrong in a cycle of the scheduler
SchedulerFailures == {"none", "fetch failure", "save failure", "KeyboardInterrupt"}

\* the hours from which interval_hours * 3600 seconds do not fit the clock
\* of time.sleep
SleepOverflowHours == 2562048

\* time.sleep(interval_hours * 3600): ValueError for a negative length,
\* OverflowError for one that does not fit
SleepRaises(interval_hours) ==
    IF interval_hours < 0 THEN "ValueError"
    ELSE IF interval_hours >= SleepOverflowHours THEN "OverflowError"
    ELSE ""

\* the exception that reaches the try of run_scheduled_report, "" for none:
\* get_bonds_data and save_report_to_file catch theirs, the sleep is last
SchedulerRaised(failure, interval_hours) ==
    IF failure = "KeyboardInterrupt" THEN "KeyboardInterrupt"
    ELSE SleepRaises(interval_hours)

\* the try of run_scheduled_report is around the loop and has one clause
SchedulerHandler(exc) ==
    IF exc = "" THEN "none"
    ELSE IF exc = "KeyboardInterrupt" THEN "stop"
    ELSE "propagate"

\* the intervals the scheduler is started with
Intervals == {-1, 1, 24, SleepOverflowHours}

\* a cycle of a loop: what went wrong, what reached the try, what took it
Cycle(failure, exc, handler) == [failure |-> failure, raised |-> exc, handler |-> handler]

\* main() of the bot enters its loop
StartBot ==
    /\ loop.pc = "idle"
    /\ loop' = [loop EXCEPT !.program = "bot", !.pc = "running"]
    /\ UNCHANGED <<extractVars, botVars, formatVars, chatVars, retryVars, mainVars>>

\* one pass of the polling loop
BotCycle(failure) ==
    /\ loop.program = "bot" /\ loop.pc = "running"
    /\ Len(loop.cycles) < MaxCycles
    /\ \E exc \in {BotRaised(failure)} :
          loop' = [loop EXCEPT
                      !.pc = IF BotHandler(exc) = "break" THEN "stopped" ELSE "running",
                      !.raised = "",
                      !.cycles = Append(@, Cycle(failure, exc, BotHandler(exc)))]
    /\ UNCHANGED <<extractVars, botVars, formatVars, chatVars, retryVars, mainVars>>

\* run_scheduled_report(interval_hours) enters its loop
StartScheduler(interval_hours) ==
    /\ loop.pc = "idle"
    /\ loop' = [loop EXCEPT !.program = "scheduler", !.pc = "running",
                            !.interval_hours = interval_hours]
    /\ UNCHANGED <<extractVars, botVars, formatVars, chatVars, retryVars, mainVars>>

\* one pass of the loop of run_scheduled_report
SchedulerCycle(failure) ==
    /\ loop.program = "scheduler" /\ loop.pc = "running"
    /\ Len(loop.cycles) < MaxCycles
    /\ \E exc \in {SchedulerRaised(failure, loop.interval_hours)} :
          loop' = [loop EXCEPT
                      !.pc = CASE SchedulerHandler(exc) = "none" -> "running"
                               [] SchedulerHandler(exc) = "stop" -> "stopped"
                               [] OTHER -> "raised",
                      !.raised = IF SchedulerHandler(exc) = "propagate" THEN exc ELSE "",
                      !.cycles = Append(@, Cycle(failure, exc, SchedulerHandler(exc)))]
    /\ UNCHANGED <<extractVars, botVars, formatVars, chatVars, retryVars, mainVars>>

\* main() of the scheduler takes a ValueError of run_scheduled_report for
\* an invalid interval and calls run_scheduled_report(24)
DefaultInterval == 24

SchedulerRestart ==
    /\ loop.program = "scheduler" /\ loop.pc = "raised" /\ loop.raised = "ValueError"
    /\ loop' = [loop EXCEPT !.pc = "running", !.interval_hours = DefaultInterval,
                            !.raised = "", !.cycles = <<>>]
    /\ UNCHANGED <<extractVars, botVars, formatVars, chatVars, retryVars, mainVars>>

NextLoops ==
    \/ StartBot
    \/ \E failure \in BotFailures : BotCycle(failure)
    \/ \E interval_hours \in Intervals : StartScheduler(interval_hours)
    \/ \E failure \in SchedulerFailures : SchedulerCycle(failure)
    \/ SchedulerRestart

SpecLoops == Init /\ [][NextLoops]_vars

(***************************************************************************)
(* The network fetches: urlopen of the bond page in get_top_yield_bonds    *)
(* and urlopen of the transport calls, with the timeout each is given.     *)
(***************************************************************************)
\* timeout=10 of the transport calls
TransportTimeout == 10

\* the timeout of urlopen(request) in get_top_yield_bonds: none is given and
\* no default is set, so the socket blocks
PageTimeout == None

\* the timeout urlopen is given in a function
TimeoutOf(fn) == IF fn = "get_top_yield_bonds" THEN PageTimeout ELSE TransportTimeout

\* what the peer does with a request: it answers, it refuses the connection,
\* it never completes the connection, or it accepts and never sends a byte
PeerAnswers == {"answers", "refuses", "silent connect", "silent read"}

\* how urlopen(...) and response.read() end for a peer, under a timeout:
\* a timeout while connecting is wrapped in URLError, a timeout of the read
\* is raised as socket.timeout, and with no timeout the read never returns
Urlopen(timeout, answer) ==
    CASE answer = "answers" -> "response"
      [] answer = "refuses" -> "URLError"
      [] answer = "silent connect" -> "URLError"
      [] answer = "silent read" -> IF timeout = None THEN "blocks" ELSE "socket.timeout"

\* the outcome of a transport attempt for what urlopen and read gave
TransportOutcome(opened) == IF opened = "response" THEN "object" ELSE opened

\* one pass of the retry loop of a transport call against a peer
TransportAttempt(answer) ==
    Attempt(TransportOutcome(Urlopen(TimeoutOf(request.fn), answer)))

\* the page the site serves when it answers
ServedPage == SitePage(3)

\* get_top_yield_bonds(count) against a peer: the call returns, or it never
\* does
FetchPage(count, answer) ==
    /\ request.pc \in {"idle", "returned"}
    /\ \E opened \in {Urlopen(TimeoutOf("get_top_yield_bonds"), answer)} :
          IF opened = "blocks"
          THEN /\ request' = [fn |-> "get_top_yield_bonds", args |-> NoArgs,
                              pc |-> "blocked", attempts |-> <<answer>>,
                              slept |-> <<>>, ret |-> ""]
               /\ UNCHANGED result
          ELSE /\ request' = [fn |-> "get_top_yield_bonds", args |-> NoArgs,
                              pc |-> "returned", attempts |-> <<answer>>,
                              slept |-> <<>>,
                              ret |-> IF opened = "response" THEN "object" ELSE "None"]
               /\ result' = [called |-> TRUE, count |-> count,
                             ret |-> GetTopYieldBonds(
                                         IF opened = "response" THEN ServedPage
                                         ELSE [status |-> opened, tables |-> <<>>],
                                         today, count)]
    /\ UNCHANGED <<retry_count, retry_delay>>
    /\ UNCHANGED <<page, today>>
    /\ UNCHANGED <<botVars, formatVars, chatVars, loopVars>>

NextFetch ==
    \/ \E call \in TransportCalls : StartCall(call)
    \/ \E answer \in PeerAnswers : TransportAttempt(answer)
    \/ Sleep
    \/ \E count \in {MinFetch, MaxFetch}, answer \in PeerAnswers : FetchPage(count, answer)

SpecFetch == Init /\ [][NextFetch]_vars

(***************************************************************************)
(* Cycles of the bot that may fail: commands against a site that may not   *)
(* answer, or may list nothing.                                            *)
(***************************************************************************)
\* the texts of the cycles that change the state of the bot
CycleCommands ==
    {CmdSubscribe, CmdUnsubscribe, CmdBonds, <<"/", "b", "o", "n", "d", "s", " ", "2", "0">>}

\* what the site answers: no answer, a page with no bonds, its longest page
CycleResponses == {[status |-> "URLError", tables |-> <<>>], SitePage(0), SitePage(MaxBonds)}

NextCycles ==
    \/ \E chat_id \in Chats, command \in CycleCommands, resp \in CycleResponses :
          HandleCommand(chat_id, command, resp)
    \/ \E t \in CommandTimes : Tick(t)

SpecCycles == Init /\ [][NextCycles]_vars

(***************************************************************************)
(* The /bonds command with its arguments                                   *)
(***************************************************************************)
BondsZero == <<"/", "b", "o", "n", "d", "s", " ", "0">>

BondsNegative == <<"/", "b", "o", "n", "d", "s", " ", "-", "3">>

BondsSeven == <<"/", "b", "o", "n", "d", "s", " ", "7">>

BondsPlusSeven == <<"/", "b", "o", "n", "d", "s", " ", "+", "7">>

BondsTwenty == <<"/", "b", "o", "n", "d", "s", " ", "2", "0">>

BondsTwentyOne == <<"/", "b", "o", "n", "d", "s", " ", "2", "1">>

BondsHuge == <<"/", "b", "o", "n", "d", "s", " ", "9", "9", "9", "9", "9", "9", "9", "9", "9", "9", "9">>

BondsWord == <<"/", "b", "o", "n", "d", "s", " ", "a", "b", "c">>

BondsFraction == <<"/", "b", "o", "n", "d", "s", " ", "7", ".", "5">>

BondsTwoBlanks == <<"/", "b", "o", "n", "d", "s", " ", " ", "1", "0">>

BondsTwoArgs == <<"/", "b", "o", "n", "d", "s", " ", "3", " ", "9">>

BondsSuffix == <<"/", "b", "o", "n", "d", "s", "X", " ", "3">>

BondsBlank == <<"/", "b", "o", "n", "d", "s", " ">>

\* the /bonds texts the chats send
BondsCommands ==
    {CmdBonds, BondsZero, BondsNegative, BondsSeven, BondsPlusSeven, BondsTwenty,
     BondsTwentyOne, BondsHuge, BondsWord, BondsFraction, BondsTwoBlanks,
     BondsTwoArgs, BondsSuffix, BondsBlank}

\* what the site answers to a /bonds command
BondsResponses == {SitePage(0), SitePage(MaxBonds)}

NextBonds ==
    \/ \E command \in BondsCommands, resp \in BondsResponses :
          HandleCommand(101, command, resp)
    \/ \E t \in CommandTimes : Tick(t)

SpecBonds == Init /\ [][NextBonds]_vars

(***************************************************************************)
(* format_bonds_message on lists long enough for every decoration         *)
(***************************************************************************)
\* the most records of a list given to format_bonds_message
MaxBlocks == 5

\* format_bonds_message(None, count): None is as the empty list to the test
\* "not bonds"
FormatNone(count) ==
    /\ printed' = Printed(printed,
                          Run("message", Failure("None"), count, 0,
                              [raised |-> FALSE, widths |-> <<>>,
                               lines |-> FormatBondsMessage(NoData, count)]))
    /\ UNCHANGED <<records, chatVars, retryVars, loopVars>>
    /\ UNCHANGED <<extractVars, botVars>>

InitMessage ==
    /\ page = Response(<<>>)
    /\ today \in Todays
    /\ result = NotCalled
    /\ now = 1 /\ last_fetch_time = NoTime /\ last_bonds_data = NoData /\ calls = <<>>
    /\ records \in SeqsUpTo({ShortItem, LongItem}, MaxBlocks)
    /\ printed = <<>>
    /\ ChatIdle /\ RetryIdle /\ LoopIdle /\ MainIdle

NextMessage ==
    \/ \E count \in {DefaultCount, MaxCount} : FormatMessage(count)
    \/ \E count \in {DefaultCount} : FormatNone(count)

SpecMessage == InitMessage /\ [][NextMessage]_vars

(***************************************************************************)
(* The polling of main: get_updates(last_update_id) and the loop over the  *)
(* updates of its result.                                                  *)
(***************************************************************************)
\* the most updates that arrive at the server
MaxUpdates == 3

\* the updates the chats cause: three commands, a message with no text, and
\* a message with a text and no sender, for which update["message"]["from"]
\* raises KeyError
UpdateKinds == {"subscribe", "unsubscribe", "help", "no text", "malformed"}

\* the text of an update with a command
UpdateText(kind) ==
    CASE kind = "subscribe" -> CmdSubscribe
      [] kind = "unsubscribe" -> CmdUnsubscribe
      [] OTHER -> CmdHelp

\* an update arrives at the server and gets the next update_id
Arrive(chat_id, kind) ==
    /\ polled.arrived < MaxUpdates
    /\ inbox' = Append(inbox, [update_id |-> polled.arrived + 1, chat_id |-> chat_id,
                               kind |-> kind])
    /\ polled' = [polled EXCEPT !.arrived = @ + 1]
    /\ UNCHANGED <<last_update_id, last_daily_check, API_URL, last_api_refresh, daily>>
    /\ UNCHANGED <<extractVars, botVars, formatVars, chatVars, retryVars, loop>>

\* the offset get_updates sends: "if offset:" leaves out None and 0
SentOffset(offset) == IF offset = None \/ offset = 0 THEN None ELSE offset

\* the updates the server holds after a getUpdates with the offset, which
\* are also those it returns: an offset confirms the updates below it
ServerBatch(box, offset) ==
    IF offset = None THEN box ELSE SelectSeq(box, LAMBDA u : u.update_id >= offset)

\* the state the loop over the updates works on
Polling(offset, users, subs, last, log) ==
    [last_update_id |-> offset, users |-> users, subs |-> subs, handled |-> last,
     taken |-> log.taken, handed |-> log.handed, raised |-> FALSE]

\* the body of the loop with last_update_id set only after the update was
\* handled
TakeUpdateLate(st, update) ==
    IF update.kind = "malformed"
    THEN [st EXCEPT !.taken = Append(@, update.update_id), !.raised = TRUE]
    ELSE IF update.kind = "no text"
    THEN [st EXCEPT !.last_update_id = update.update_id + 1,
                    !.taken = Append(@, update.update_id)]
    ELSE [st EXCEPT !.last_update_id = update.update_id + 1,
                    !.taken = Append(@, update.update_id),
                    !.handed = Append(@, update.update_id),
                    !.users = Handled(st.users, update.chat_id, UpdateText(update.kind)).users,
                    !.subs = LastSubscription(st.subs, update.chat_id, UpdateText(update.kind)),
                    !.handled = HandledCall(update.chat_id, UpdateText(update.kind), 0, st.users,
                                            Handled(st.users, update.chat_id, UpdateText(update.kind)),
                                            Handled(st.users, update.chat_id, UpdateText(update.kind)).replies)]

\* the body of the loop over the updates: last_update_id first, then the
\* message, if it has a text, goes to handle_command
TakeUpdate(st, update) ==
    IF update.kind = "malformed"
    THEN [st EXCEPT !.last_update_id = update.update_id + 1,
                    !.taken = Append(@, update.update_id), !.raised = TRUE]
    ELSE IF update.kind = "no text"
    THEN [st EXCEPT !.last_update_id = update.update_id + 1,
                    !.taken = Append(@, update.update_id)]
    ELSE [st EXCEPT !.last_update_id = update.update_id + 1,
                    !.taken = Append(@, update.update_id),
                    !.handed = Append(@, update.update_id),
                    !.users = Handled(st.users, update.chat_id, UpdateText(update.kind)).users,
                    !.subs = LastSubscription(st.subs, update.chat_id, UpdateText(update.kind)),
                    !.handled = HandledCall(update.chat_id, UpdateText(update.kind), 0, st.users,
                                            Handled(st.users, update.chat_id, UpdateText(update.kind)),
                                            Handled(st.users, update.chat_id, UpdateText(update.kind)).replies)]

\* for update in updates["result"], up to the update that raises
RECURSIVE ProcessBatch(_, _, _)
ProcessBatch(st, batch, i) ==
    IF i > Len(batch) \/ st.raised THEN st
    ELSE ProcessBatch(TakeUpdate(st, batch[i]), batch, i + 1)

\* the state after the updates of a batch
AfterBatch(batch) ==
    ProcessBatch(Polling(last_update_id, subscribed_users, subscription, handled, polled),
                 batch, 1)

(***************************************************************************)
(* The clock of main: time.time() in seconds, second 0 being a midnight,   *)
(* and datetime.datetime.now() read from the same clock.                   *)
(***************************************************************************)
\* the days the clock runs through
MaxDays == 2

\* the readings of a day at which something happens: 09:58:59, 09:59:59,
\* 10:00:00, 10:00:59, 10:01:00, 10:10:00
DayInstants == {35939, 35999, 36000, 36059, 36060, 36600}

\* the readings of the clock at which something happens
Instants == {d * 86400 + s : d \in 0..(MaxDays - 1), s \in DayInstants}

\* the next reading at which something happens
NextInstant(t) ==
    IF \E u \in Instants : u > t
    THEN CHOOSE u \in Instants : u > t /\ \A v \in Instants : v > t => u <= v
    ELSE t

\* datetime.datetime.now() when time.time() reads t: the fields main uses
DateTime(t) ==
    [day |-> t \div 86400, hour |-> (t % 86400) \div 3600, minute |-> (t % 3600) \div 60]

\* the hour and the minute of the daily update
DailyHour == 10
DailyMinute == 0

\* is_time_for_daily_update(), its own reading of the clock being t
IsTimeForDailyUpdate(t) ==
    DateTime(t).hour = DailyHour /\ DateTime(t).minute = DailyMinute

\* the seconds after which main looks up the address again
RefreshPeriod == 600

\* what the lookup of the address finds: the name resolves, or one of the
\* fallback addresses connects, or nothing does
Lookups == {"resolves", "fallback 1", "fallback 2", "nothing"}

\* get_api_url(): the address by its place, 0 for the host name
GetApiUrl(lookup) ==
    CASE lookup = "fallback 1" -> 1
      [] lookup = "fallback 2" -> 2
      [] OTHER -> 0

(***************************************************************************)
(* send_daily_updates: one fetch, one message, a send to every subscriber. *)
(***************************************************************************)
\* what a send_message may return: the answer of the server, or None after
\* the retries
SendResults == {"sent", "None"}

\* send_message(chat_id, message): API_URL + "sendMessage" raises while
\* API_URL is None
SendMessageResult(url, outcome) == IF url = None THEN "raise" ELSE outcome

\* the subscribers in the order the set gives them
Recipients(users, order) == SelectSeq(order, LAMBDA c : c \in users)

\* the sends up to the first that did not deliver
DailyAttemptsUntilFailure(to, url, outcomes) ==
    LET until == IF \E i \in 1..Len(to) : SendMessageResult(url, outcomes[to[i]]) # "sent"
                 THEN CHOOSE i \in 1..Len(to) :
                          /\ SendMessageResult(url, outcomes[to[i]]) # "sent"
                          /\ \A j \in 1..(i - 1) : SendMessageResult(url, outcomes[to[j]]) = "sent"
                 ELSE Len(to)
    IN  [i \in 1..until |->
            [chat_id |-> to[i], result |-> SendMessageResult(url, outcomes[to[i]])]]

\* for chat_id in subscribed_users: try send_message, except Exception
DailyAttempts(to, url, outcomes) ==
    [i \in 1..Len(to) |->
        [chat_id |-> to[i], result |-> SendMessageResult(url, outcomes[to[i]])]]

\* what a run of send_daily_updates did: the subscribers it found, whether
\* it asked for the bonds and got some, and the sends it tried
DailyRun(users, call, order, url, outcomes) ==
    IF users = {}
    THEN [invoked |-> TRUE, users |-> users, fetched |-> FALSE, ok |-> FALSE,
          attempts |-> <<>>]
    ELSE IF ~(call.ok /\ Len(call.bonds) > 0)
    THEN [invoked |-> TRUE, users |-> users, fetched |-> TRUE, ok |-> FALSE,
          attempts |-> <<>>]
    ELSE [invoked |-> TRUE, users |-> users, fetched |-> TRUE, ok |-> TRUE,
          attempts |-> DailyAttempts(Recipients(users, order), url, outcomes)]

\* what send_daily_updates() does when time.time() reads t and the site
\* answers resp
DailyRunAt(t, resp, order, outcomes) ==
    DailyRun(subscribed_users,
             GetBondsDataCall(DefaultCount, t, last_fetch_time, last_bonds_data, resp, today),
             order, API_URL, outcomes)

\* send_daily_updates() on the cache: get_bonds_data() unless nobody is
\* subscribed
SendDailyUpdatesAt(t, resp) ==
    IF subscribed_users = {}
    THEN UNCHANGED <<last_fetch_time, last_bonds_data, calls, result>>
    ELSE GetBondsDataAt(DefaultCount, t, resp)

\* a call of send_daily_updates() and nothing else
SendDailyUpdates(resp, order, outcomes) ==
    /\ SendDailyUpdatesAt(now, resp)
    /\ daily' = [daily EXCEPT !.last = DailyRunAt(now, resp, order, outcomes)]
    /\ UNCHANGED <<page, now, today>>
    /\ UNCHANGED <<formatVars, chatVars, retryVars, loop>>
    /\ UNCHANGED <<last_update_id, inbox, polled, last_daily_check, API_URL, last_api_refresh>>

(***************************************************************************)
(* main: the start and a pass of the loop.                                 *)
(***************************************************************************)
\* main up to the loop: the address, the time of its lookup, no update
\* taken, the time of the last daily check
MainStart(lookup) ==
    /\ API_URL = None
    /\ API_URL' = GetApiUrl(lookup)
    /\ last_api_refresh' = now
    /\ last_update_id' = None
    /\ last_daily_check' = DateTime(now)
    /\ daily' = [daily EXCEPT !.started = now]
    /\ UNCHANGED <<inbox, polled>>
    /\ UNCHANGED <<extractVars, botVars, formatVars, chatVars, retryVars, loop>>

\* the daily check of a pass finds a new minute and the time of the update,
\* is_time_for_daily_update() reading the clock at t
DailyDue(t) ==
    /\ DateTime(now).minute # last_daily_check.minute
    /\ IsTimeForDailyUpdate(t)

\* the daily check of a pass: now is read first, is_time_for_daily_update
\* reads the clock again at t
DailyCheck(t, resp, order, outcomes) ==
    /\ last_daily_check' = IF DateTime(now).minute # last_daily_check.minute
                           THEN DateTime(now) ELSE last_daily_check
    /\ IF DailyDue(t)
       THEN /\ SendDailyUpdatesAt(t, resp)
            /\ daily' = [daily EXCEPT !.runs = Append(@, t),
                                      !.last = DailyRunAt(t, resp, order, outcomes)]
       ELSE UNCHANGED <<last_fetch_time, last_bonds_data, calls, result, daily>>

\* what get_updates may meet: the server answers, or the network fails
Answers == {"updates", "URLError"}

\* get_updates(offset): the updates of the answer; a URLError is retried and
\* then None is returned, which main takes as no updates
GetUpdates(answer, box, offset) ==
    IF answer = "updates" THEN ServerBatch(box, SentOffset(offset)) ELSE <<>>

\* the exception that leaves the try block of a pass: the calls of the pass
\* return None for a URLError, the body of the loop over the updates raises
\* KeyError
PassRaised(st) == IF st.raised THEN "KeyError" ELSE "none"

\* the except clauses of main
MainHandler(exc) ==
    CASE exc = "none" -> "none"
      [] exc = "KeyboardInterrupt" -> "break"
      [] exc = "URLError" -> "refresh"
      [] OTHER -> "log"

\* current_time - last_api_refresh > 600
RefreshDue(t) == t - last_api_refresh > RefreshPeriod

\* a network error met in the pass: by get_updates, or by a send of the
\* daily update
NetworkError(t, resp, order, outcomes, answer) ==
    \/ answer = "URLError"
    \/ /\ DailyDue(t)
       /\ \E i \in DOMAIN DailyRunAt(t, resp, order, outcomes).attempts :
             DailyRunAt(t, resp, order, outcomes).attempts[i].result = "None"

\* the address and the time of its lookup after a pass that read the time
\* at t, ended at t4 and left the try block with exc
Refresh(t, t4, lookup, exc) ==
    /\ API_URL' = IF RefreshDue(t) \/ MainHandler(exc) = "refresh"
                  THEN GetApiUrl(lookup) ELSE API_URL
    /\ last_api_refresh' = IF MainHandler(exc) = "refresh" THEN t4
                           ELSE IF RefreshDue(t) THEN t
                           ELSE last_api_refresh

\* a pass of the loop of main: the daily check, the refresh of the address,
\* get_updates and the updates of its answer, the sleep; the clock reads t
\* after the first reading and t4 when the pass ends
MainCycle(t, t4, lookup, resp, order, outcomes, answer) ==
    /\ API_URL # None
    /\ now <= t /\ t <= t4
    /\ DailyCheck(t, resp, order, outcomes)
    /\ \E st \in {AfterBatch(GetUpdates(answer, inbox, last_update_id))} :
          /\ Refresh(t, t4, lookup, PassRaised(st))
          /\ last_update_id' = st.last_update_id
          /\ subscribed_users' = st.users
          /\ subscription' = st.subs
          /\ handled' = st.handled
          /\ polled' = [polled EXCEPT
                 !.sent = SentOffset(last_update_id),
                 !.before = Len(polled.taken),
                 !.taken = st.taken, !.handed = st.handed, !.raised = st.raised,
                 !.neterror = NetworkError(t, resp, order, outcomes, answer),
                 !.refreshed = RefreshDue(t) \/ MainHandler(PassRaised(st)) = "refresh",
                 !.gap = t - last_api_refresh]
    /\ inbox' = IF answer = "updates"
                THEN ServerBatch(inbox, SentOffset(last_update_id)) ELSE inbox
    /\ now' = t4
    /\ UNCHANGED <<page, today, formatVars, retryVars, loop>>

\* the order in which a set of two chats gives its members
Orders == {<<101, 102>>, <<102, 101>>}

\* every send delivers
AllSent == [c \in Chats |-> "sent"]

NextUpdates ==
    \/ \E chat_id \in Chats, kind \in UpdateKinds : Arrive(chat_id, kind)
    \/ MainStart("resolves")
    \/ \E answer \in Answers :
          MainCycle(now, now, "resolves", SitePage(0), <<101, 102>>, AllSent, answer)

SpecUpdates == Init /\ [][NextUpdates]_vars

\* the readings of the clock: that of the start of the program, and the
\* instants
Readings == {1} \cup Instants

\* the second reading of the clock in a pass: the first, or the next second
SecondReadings(t) == {t} \cup {u \in {NextInstant(t)} : u - t <= 1}

\* the lookups of the address while the schedule is watched
DailyLookups == {"resolves", "fallback 1"}

\* time passes before main is started
Wait(t) == API_URL = None /\ Tick(t)

\* a pass of main that ends at the second reading or at the next instant,
\* nobody being subscribed
DailyPass(t, t4, lookup, answer) ==
    /\ t \in SecondReadings(now)
    /\ t4 \in {t, NextInstant(t)}
    /\ MainCycle(t, t4, lookup, SitePage(0), <<101, 102>>, AllSent, answer)

NextDaily ==
    \/ \E t \in Instants : Wait(t)
    \/ \E lookup \in DailyLookups : MainStart(lookup)
    \/ \E t \in Readings, t4 \in Readings, lookup \in DailyLookups, answer \in Answers :
          DailyPass(t, t4, lookup, answer)

SpecDaily == Init /\ [][NextDaily]_vars

(***************************************************************************)
(* The daily update on its own: chats subscribe and unsubscribe, main      *)
(* starts, send_daily_updates runs.                                        *)
(***************************************************************************)
\* the commands that change the subscribers
FanOutCommands == {CmdSubscribe, CmdUnsubscribe}

\* what the site answers to the fetch of the daily update
FanOutResponses == {[status |-> "URLError", tables |-> <<>>], SitePage(0), SitePage(6)}

NextFanOut ==
    \/ \E chat_id \in Chats, command \in FanOutCommands :
          HandleCommand(chat_id, command, SitePage(0))
    \/ MainStart("resolves")
    \/ \E resp \in FanOutResponses, order \in Orders, outcomes \in [Chats -> SendResults] :
          SendDailyUpdates(resp, order, outcomes)
    \/ \E t \in CommandTimes : Tick(t)

SpecFanOut == Init /\ [][NextFanOut]_vars

(***************************************************************************)
(* What the claims speak of                                                *)
(***************************************************************************)
\* the table the call works on, its column indices and its data rows
PageTable == page.tables[SelectTable(page.tables, 1)]

PageIdx == HeaderMap(PageTable.trs[1].ths)

DataRows == 1..(Len(PageTable.trs) - 1)

RowCells(r) == PageTable.trs[r + 1].tds

\* the page has a bonds table with a header row and a yield column
HasYieldColumn ==
    /\ page.status = "ok"
    /\ SelectTable(page.tables, 1) # 0
    /\ PageTable.trs # <<>>
    /\ PageIdx.ytm # None

\* the last call asked for at least as many records as the table has rows
AskedAll == result.called /\ result.count >= Len(PageTable.trs) - 1

\* every data row has one cell for every header cell
WellFormedRows == \A r \in DataRows : Len(RowCells(r)) = Len(PageTable.trs[1].ths)

\* the yield cell of row r, cleaned as the code cleans it, is a float literal
YieldParses(r) ==
    /\ Present(RowCells(r), PageIdx.ytm)
    /\ ParseFloat(Strip(Replace(Replace(Strip(Cell(RowCells(r), PageIdx.ytm).raw),
                                        "%", <<>>), ",", <<".">>))) # ValueError

\* the column indices the header resolved, the offer date's included
ResolvedIndices ==
    {PageIdx.name, PageIdx.ytm, PageIdx.rating, PageIdx.maturity, PageIdx.offer} \ {None}

ReturnedYield(i) == result.ret.bonds[i]["Yield to Maturity"]

ReturnedRows == {result.ret.rows[i] : i \in 1..Len(result.ret.rows)}

\* the number of records the loop over the data rows built
Extracted == Len(BondsList(RowOutcomes(PageTable.trs, PageIdx, today), 1))

(***************************************************************************)
(* C6: the list returned by get_top_yield_bonds(k), k >= 0, is sorted      *)
(* non-increasing by yield, has min(k, number of extracted records)        *)
(* entries, and keeps records of equal yield in the order of their rows.   *)
(***************************************************************************)
C6_Ranking ==
    (result.called /\ result.ret.ok /\ result.count >= 0) =>
        /\ \A i \in 1..(Len(result.ret.bonds) - 1) :
              FloatGe(ReturnedYield(i), ReturnedYield(i + 1))
        /\ Len(result.ret.bonds) = Min(result.count, Extracted)
        /\ \A i, j \in 1..Len(result.ret.bonds) :
              (i < j /\ FloatEq(ReturnedYield(i), ReturnedYield(j)))
                  => result.ret.rows[i] < result.ret.rows[j]

(***************************************************************************)
(* C7: the ranking step does not clamp count: for count >= 0 it returns    *)
(* the first count records, and for count < 0, and only then, it reports   *)
(* an error instead of returning records.                                  *)
(***************************************************************************)
C7_CountHandling ==
    (result.called /\ HasYieldColumn) =>
        /\ result.count >= 0 =>
              /\ result.ret.ok
              /\ Len(result.ret.bonds) = Min(result.count, Extracted)
        /\ result.count < 0 => ~result.ret.ok

(***************************************************************************)
(* C8: a table with a yield column and N data rows whose yield cell is     *)
(* present and parseable gives exactly N records, whichever other columns  *)
(* the header lacks and wherever the yield column stands.                  *)
(***************************************************************************)
C8_RowCompleteness ==
    (AskedAll /\ HasYieldColumn /\ WellFormedRows) =>
        /\ result.ret.ok
        /\ Len(result.ret.bonds) = Cardinality({r \in DataRows : YieldParses(r)})

(***************************************************************************)
(* C9: extraction fails when no header matches the yield marker, and a     *)
(* table with a yield header and at least one data row gives a list of     *)
(* records, whichever optional columns are absent and whatever the index   *)
(* of the yield column.                                                    *)
(***************************************************************************)
C9_MandatoryColumn ==
    result.called =>
        /\ (page.status = "ok" /\ SelectTable(page.tables, 1) # 0
               /\ PageTable.trs # <<>> /\ PageIdx.ytm = None) => ~result.ret.ok
        /\ (HasYieldColumn /\ DataRows # {}) => result.ret.ok

(***************************************************************************)
(* C10: a data row is skipped if and only if its cell count is at most the *)
(* largest resolved column index (name, yield, rating, maturity, offer     *)
(* date); every other row gives a record, and a skipped row does not abort *)
(* the rows after it.                                                      *)
(***************************************************************************)
C10_RowSkipRule ==
    (AskedAll /\ HasYieldColumn) =>
        /\ result.ret.ok
        /\ ReturnedRows = {r \in DataRows : Len(RowCells(r)) > SetMax(ResolvedIndices)}

(***************************************************************************)
(* The calls of get_bonds_data                                             *)
(***************************************************************************)
LastCall == calls[Len(calls)]

PrevCall == calls[Len(calls) - 1]

\* the call c found a cache entry younger than the TTL with at least as
\* many records as it asked for
FoundUsable(c) ==
    /\ c.before_time # NoTime
    /\ c.before_data # NoData
    /\ c.at - c.before_time < TTL
    /\ Len(c.before_data) >= c.count

\* the fetcher's last return is a list with records in it
LastFetchGaveRecords == result.ret.ok /\ Len(result.ret.bonds) > 0

\* two calls in a row, the second less than the TTL after the first
TwoCallsWithinTTL == Len(calls) = 2 /\ LastCall.at - PrevCall.at < TTL

(***************************************************************************)
(* C1: a call get_bonds_data(count) that finds a cache entry younger than  *)
(* the TTL with at least count records returns exactly the first count     *)
(* cached records and does not invoke the fetcher.                         *)
(***************************************************************************)
C1_CacheHit ==
    (calls # <<>> /\ FoundUsable(LastCall)) =>
        /\ LastCall.fetches = 0
        /\ LastCall.ok
        /\ LastCall.bonds = SubSeq(LastCall.before_data, 1, LastCall.count)

C1_Witness ==
    /\ calls # <<>> /\ FoundUsable(LastCall)
    /\ Len(LastCall.before_data) > LastCall.count
    /\ LastCall.at > LastCall.before_time

(***************************************************************************)
(* C2: a call that is not served from the cache invokes the fetcher once,  *)
(* with fetch_count = min(max(count, 5), 20); if the fetch gives records,  *)
(* the cache entry becomes the time of the call and the fetched list, and  *)
(* the first count fetched records are returned.                           *)
(***************************************************************************)
C2_CacheMiss ==
    (calls # <<>> /\ ~FoundUsable(LastCall)) =>
        /\ LastCall.fetches = 1
        /\ result.called /\ result.count = LastCall.fetch_count
        /\ LastCall.fetch_count = Min(Max(LastCall.count, MinFetch), MaxFetch)
        /\ LastFetchGaveRecords =>
              /\ last_fetch_time = LastCall.at
              /\ last_bonds_data = result.ret.bonds
              /\ LastCall.ok
              /\ LastCall.bonds =
                    SubSeq(result.ret.bonds, 1, Min(LastCall.count, Len(result.ret.bonds)))

C2_Witness ==
    /\ calls # <<>> /\ ~FoundUsable(LastCall)
    /\ LastCall.before_data # NoData
    /\ LastCall.count < MinFetch
    /\ LastFetchGaveRecords
    /\ last_bonds_data # LastCall.before_data

(***************************************************************************)
(* C3: when the fetcher fails (None or no records) the call returns None,  *)
(* also when a cache entry exists, and the cache entry stays as it was.    *)
(***************************************************************************)
C3_FetchFailure ==
    (calls # <<>> /\ LastCall.fetches = 1 /\ ~LastFetchGaveRecords) =>
        /\ ~LastCall.ok
        /\ LastCall.bonds = <<>>
        /\ last_fetch_time = LastCall.before_time
        /\ last_bonds_data = LastCall.before_data

C3_Witness ==
    /\ calls # <<>> /\ LastCall.fetches = 1 /\ ~LastFetchGaveRecords
    /\ LastCall.before_data # NoData
    /\ result.ret.ok

(***************************************************************************)
(* C4, as claimed: whatever the cache holds and the fetcher returns, two   *)
(* calls get_bonds_data(5) in a row less than the TTL apart invoke the     *)
(* fetcher exactly once in total, and a call repeated with the same count  *)
(* within the TTL does not fetch.                                          *)
(***************************************************************************)
C4_RepeatedRequest ==
    (TwoCallsWithinTTL /\ LastCall.count = PrevCall.count) =>
        /\ LastCall.count = MinFetch => PrevCall.fetches + LastCall.fetches = 1
        /\ LastCall.fetches = 0

(***************************************************************************)
(* C4, amended: of two calls in a row with the same count, less than the   *)
(* TTL apart, the second does not fetch and returns count records when the *)
(* first fetched and got at least count records (one fetch in total); it   *)
(* fetches again when the first fetch failed or gave fewer than count      *)
(* records.                                                                *)
(***************************************************************************)
C4_RepeatAfterFetch ==
    (TwoCallsWithinTTL /\ LastCall.count = PrevCall.count /\ PrevCall.fetches = 1) =>
        IF PrevCall.fetched_ok /\ PrevCall.fetched_n >= PrevCall.count
        THEN /\ LastCall.fetches = 0
             /\ LastCall.ok
             /\ Len(LastCall.bonds) = LastCall.count
        ELSE LastCall.fetches = 1

C4_Witness ==
    /\ TwoCallsWithinTTL
    /\ LastCall.count = MinFetch /\ PrevCall.count = MinFetch
    /\ PrevCall.fetches = 1 /\ PrevCall.fetched_ok
    /\ LastCall.fetches = 0
    /\ LastCall.at > PrevCall.at

(***************************************************************************)
(* C5, as claimed: after a call served from the cache, a next call within  *)
(* the TTL with a larger count invokes the fetcher exactly once.           *)
(***************************************************************************)
C5_LargerAfterHit ==
    (TwoCallsWithinTTL /\ PrevCall.fetches = 0 /\ LastCall.count > PrevCall.count) =>
        LastCall.fetches = 1

(***************************************************************************)
(* C5, amended: after a call served from the cache, a next call with a     *)
(* larger count invokes the fetcher once if its count exceeds the number   *)
(* of cached records or the entry has reached the TTL, and not at all      *)
(* otherwise.                                                              *)
(***************************************************************************)
C5_LargerAfterHitRefetch ==
    (TwoCallsWithinTTL /\ PrevCall.fetches = 0 /\ LastCall.count > PrevCall.count) =>
        /\ LastCall.fetches \in {0, 1}
        /\ LastCall.fetches = 1 <=>
              \/ LastCall.count > Len(LastCall.before_data)
              \/ LastCall.at - LastCall.before_time >= TTL

C5_Witness ==
    /\ TwoCallsWithinTTL /\ PrevCall.fetches = 0 /\ LastCall.count > PrevCall.count
    /\ LastCall.fetches = 1
    /\ LastCall.at - LastCall.before_time < TTL

(***************************************************************************)
(* The cells of the data rows                                              *)
(***************************************************************************)
\* the record returned in place i, and the data row it was built from
Record(i) == result.ret.bonds[i]

RowOf(i) == RowCells(result.ret.rows[i])

\* the text of a cell of row cells, cleaned as the row loop cleans a cell
YieldText(cells) ==
    Strip(Replace(Replace(Strip(Cell(cells, PageIdx.ytm).raw), "%", <<>>), ",", <<".">>))

MaturityText(cells) == Replace(Strip(Cell(cells, PageIdx.maturity).raw), ",", <<".">>)

OfferText(cells) == Strip(StripTags(Strip(Cell(cells, PageIdx.offer).raw)))

\* the text is day.month.year, three integers that make a calendar date
DenotesDate(text) ==
    LET parts == Split(text, ".")
    IN  /\ Len(parts) = 3
        /\ \A i \in 1..3 : IntOk(parts[i]) /\ ~IntBig(parts[i])
        /\ DateCheck(FullYear(IntVal(parts[3])), IntVal(parts[2]), IntVal(parts[1]),
                     FALSE) = "date"

\* the days from the evaluation date to the date the text denotes
DaysUntil(text) ==
    LET parts == Split(text, ".")
    IN  Ordinal(FullYear(IntVal(parts[3])), IntVal(parts[2]), IntVal(parts[1])) - today

HasYearsToOffer(bond) == "Years to Offer" \in DOMAIN bond

\* the call was made on a page of five columns whose rows have all five cells
CellsExtracted == AskedAll /\ HasYieldColumn /\ WellFormedRows /\ PageIdx.offer # None

(***************************************************************************)
(* C11: once the table and the yield column are found, no content of a row *)
(* or cell makes the call fail or lose the record of a row: every data row *)
(* gives its record, with the sentinel in place of a field that does not   *)
(* parse (ISIN N/A, yield 0.0, maturity N/A).                              *)
(***************************************************************************)
C11_GracefulDegradation ==
    CellsExtracted =>
        /\ result.ret.ok
        /\ ReturnedRows = DataRows
        /\ \A i \in 1..Len(result.ret.bonds) :
              /\ Cell(RowOf(i), PageIdx.name).anchor = <<>> => Record(i)["ISIN"] = NA
              /\ ParseFloat(YieldText(RowOf(i))) = ValueError
                    => Record(i)["Yield to Maturity"] = Zero
              /\ ParseFloat(MaturityText(RowOf(i))) = ValueError
                    => Record(i)["Maturity"] = NA

(***************************************************************************)
(* C12: the yield of every returned record is a finite number, and it is   *)
(* 0.0 when the cleaned text of the yield cell is not a number.            *)
(***************************************************************************)
C12_YieldFinite ==
    (CellsExtracted /\ result.ret.ok) =>
        \A i \in 1..Len(result.ret.bonds) :
            /\ IsFinite(Record(i)["Yield to Maturity"])
            /\ ~IsFinite(ParseFloat(YieldText(RowOf(i))))
                  => Record(i)["Yield to Maturity"] = Zero

(***************************************************************************)
(* C13: a record whose offer-date cell is a past date, or is not a         *)
(* day.month.year date at all, has the offer date N/A and no years to      *)
(* offer.                                                                  *)
(***************************************************************************)
C13_OfferNormalized ==
    (CellsExtracted /\ result.ret.ok) =>
        \A i \in 1..Len(result.ret.bonds) :
            (~DenotesDate(OfferText(RowOf(i))) \/ DaysUntil(OfferText(RowOf(i))) < 0)
                => /\ Record(i)["Offer Date"] = NA
                   /\ ~HasYearsToOffer(Record(i))

(***************************************************************************)
(* C14: in every returned record, an offer-date text that denotes a date   *)
(* after the evaluation date is kept and years to offer is the number of   *)
(* days to it over 365; a date on or before the evaluation date, a dash    *)
(* and the empty text give N/A and no years to offer; and a record has     *)
(* years to offer exactly when its text denotes a date after the           *)
(* evaluation date.                                                        *)
(***************************************************************************)
C14_OfferCases ==
    (CellsExtracted /\ result.ret.ok) =>
        \A i \in 1..Len(result.ret.bonds) :
            LET text == OfferText(RowOf(i))
                bond == Record(i)
            IN  /\ (DenotesDate(text) /\ DaysUntil(text) > 0) =>
                      /\ bond["Offer Date"] = text
                      /\ HasYearsToOffer(bond)
                      /\ bond["Years to Offer"] = Num(DaysUntil(text), 365)
                /\ (DenotesDate(text) /\ DaysUntil(text) <= 0) =>
                      bond["Offer Date"] = NA /\ ~HasYearsToOffer(bond)
                /\ text \in {<<"-">>, <<>>} =>
                      bond["Offer Date"] = NA /\ ~HasYearsToOffer(bond)
                /\ HasYearsToOffer(bond) <=> (DenotesDate(text) /\ DaysUntil(text) > 0)

\* records were returned for a 2-digit future year, the evaluation date
\* itself, a past date and a dash
C14_Witness ==
    /\ CellsExtracted /\ result.ret.ok /\ Len(result.ret.bonds) = 2
    /\ \E i \in 1..2 :
          /\ OfferText(RowOf(i)) = <<"1", "5", ".", "0", "6", ".", "2", "0", "2", "4">>
          /\ Record(i)["Offer Date"] = NA
    /\ \E i \in 1..2 :
          /\ OfferText(RowOf(i)) = <<"3", "1", ".", "1", "2", ".", "3", "0">>
          /\ Record(i)["Years to Offer"] = Num(2390, 365)

(***************************************************************************)
(* C15: extraction uses the first table, in document order, whose text     *)
(* holds both the yield marker and the rating marker: the records it       *)
(* returns are of that table, and when no table holds both it fails and    *)
(* returns no record.                                                      *)
(***************************************************************************)
\* the tables of the page that hold both markers
BothMarkers ==
    {k \in 1..Len(page.tables) :
        TableContains(page.tables[k], "Yield") /\ TableContains(page.tables[k], "Rating")}

FirstBoth == CHOOSE k \in BothMarkers : \A j \in BothMarkers : k <= j

\* the bond of table k of the generated pages carries the number k
FromTableNumber(bond, k) == bond["ISIN"] = <<"R">> \o IntToText(k)

C15_TableSelection ==
    result.called =>
        /\ BothMarkers = {} => (~result.ret.ok /\ result.ret.bonds = <<>>)
        /\ result.ret.ok =>
              /\ BothMarkers # {}
              /\ \A i \in 1..Len(result.ret.bonds) : FromTableNumber(Record(i), FirstBoth)
        /\ (BothMarkers # {} /\ result.count >= 1
               /\ page.tables[FirstBoth] = TableOfKind("bonds", FirstBoth))
              => (result.ret.ok /\ Len(result.ret.bonds) = 1)

\* the second of three tables was used: the first lacks a marker, the third
\* holds both as well
C15_Witness ==
    /\ result.called /\ result.ret.ok /\ Len(result.ret.bonds) = 1
    /\ Len(page.tables) = 3 /\ BothMarkers = {2, 3}
    /\ FromTableNumber(Record(1), 2)

(***************************************************************************)
(* The formatter runs                                                      *)
(***************************************************************************)
\* the runs that laid out a table
TableRuns == {i \in 1..Len(printed) : DOMAIN printed[i].widths # {}}

\* the lines of the table in the output of a run
TableLines(run) ==
    IF run.style = "table" THEN run.lines
    ELSE SubSeq(run.lines, 3, Len(records) + 4)

\* the run printed the whole table
WholeTable(run) ==
    /\ ~run.raised
    /\ run.style = "report" => Len(run.lines) = Len(records) + 7

(***************************************************************************)
(* C16: the width of every column of the plain-text table is at least the  *)
(* length of its header label and of every value shown in it, N/A for a    *)
(* missing field included; the lines of a table are then equally long.     *)
(***************************************************************************)
C16_TableWidths ==
    \A i \in TableRuns :
        /\ \A col \in DOMAIN printed[i].widths :
              /\ printed[i].widths[col] >= Len(Label(col))
              /\ \A k \in 1..Len(records) :
                    printed[i].widths[col] >= Len(RowValue(records[k], col))
        /\ WholeTable(printed[i]) =>
              \A k \in 1..Len(TableLines(printed[i])) :
                  Len(TableLines(printed[i])[k]) = Len(TableLines(printed[i])[1])

\* print_table laid out two records, one of them without its rating, and a
\* value made the name column wider than its label
C16_Witness ==
    /\ Len(records) = 2
    /\ \E k \in 1..2 : "Rating" \notin DOMAIN records[k]
    /\ \E i \in TableRuns :
          /\ printed[i].style = "table" /\ WholeTable(printed[i])
          /\ printed[i].widths["Name"] > Len(Label("Name"))
          /\ Len(printed[i].lines) = 4

(***************************************************************************)
(* C17: two runs of a formatter on the same list of records (for the       *)
(* message, with the same count) give the same text, whatever the time of  *)
(* the run.                                                                *)
(***************************************************************************)
C17_FormatterDeterminism ==
    \A i, j \in 1..Len(printed) :
        (/\ printed[i].style = printed[j].style
         /\ printed[i].given = printed[j].given
         /\ printed[i].data = printed[j].data
         /\ printed[i].count = printed[j].count)
            => printed[i].lines = printed[j].lines

(***************************************************************************)
(* C18: a chat is in subscribed_users exactly when its last /subscribe or  *)
(* /unsubscribe command was /subscribe; a repeated /subscribe or           *)
(* /unsubscribe leaves the set as it was, and no command raises.           *)
(***************************************************************************)
C18_SubscriptionRegistry ==
    /\ \A c \in Chats : c \in subscribed_users <=> subscription[c] = CmdSubscribe
    /\ ~handled.raised
    /\ (handled.branch = "subscribe" /\ handled.chat_id \in handled.before)
           => subscribed_users = handled.before
    /\ (handled.branch = "unsubscribe" /\ handled.chat_id \notin handled.before)
           => subscribed_users = handled.before

\* a chat that had unsubscribed sends /unsubscribe again while the other
\* chat is subscribed
C18_Witness ==
    /\ handled.branch = "unsubscribe"
    /\ handled.chat_id \notin handled.before
    /\ subscription[handled.chat_id] = CmdUnsubscribe
    /\ handled.replies = <<"was not subscribed">>
    /\ subscribed_users = Chats \ {handled.chat_id}

\* the attempts of the call that failed
FailedAttempts ==
    {i \in 1..Len(request.attempts) : RaisedBy(request.fn, request.attempts[i]) # ""}

(***************************************************************************)
(* C19: a transport call makes at most 3 request attempts; it waits 1 s    *)
(* and then 2 s, once after each network error that another attempt        *)
(* follows, and not after the last attempt; a call whose attempts all      *)
(* failed returns None, and no call raises.                                *)
(***************************************************************************)
C19_BoundedRetry ==
    /\ Len(request.attempts) <= MaxRetries
    /\ request.pc = "loop" => retry_count < MaxRetries
    /\ request.slept = SubSeq(<<1, 2>>, 1, Len(request.slept))
    /\ Len(request.slept) =
           IF request.pc = "loop" THEN Len(request.attempts)
           ELSE IF request.pc \in {"sleeping", "returned"} THEN Len(request.attempts) - 1
           ELSE 0
    /\ \A i \in 1..Len(request.slept) : request.attempts[i] \in {"URLError", "HTTPError"}
    /\ request.pc = "returned" =>
          /\ request.ret # "raise"
          /\ Len(request.attempts) \in FailedAttempts => request.ret = "None"

\* get_updates gave up after three network errors and two waits
C19_Witness ==
    /\ request.pc = "returned"
    /\ request.fn = "get_updates"
    /\ request.attempts = <<"URLError", "HTTPError", "URLError">>
    /\ request.slept = <<1, 2>>
    /\ request.ret = "None"

(***************************************************************************)
(* C20: a delivery loop ends only by the interrupt of the user: a loop     *)
(* that is no longer running ended a cycle in which KeyboardInterrupt was  *)
(* raised; a cycle with any other failure is followed by a next cycle.     *)
(***************************************************************************)
C20_LoopSurvival ==
    loop.pc \in {"stopped", "raised"} =>
        loop.cycles[Len(loop.cycles)].raised = "KeyboardInterrupt"

(***************************************************************************)
(* C21: every network fetch has a bounded timeout, so no fetch waits       *)
(* forever for a peer that never answers, and a fetch that timed out ends  *)
(* in a failure value of its call, not in an exception.                    *)
(***************************************************************************)
C21_BoundedFetch ==
    /\ request.pc # "blocked"
    /\ request.pc = "returned" => request.ret # "raise"

\* the last command was /bonds and its fetch failed
BondsFailed == handled.branch = "bonds" /\ handled.replies = <<"fetching", "no data">>

(***************************************************************************)
(* C22: last_fetch_time and last_bonds_data are both unset or both set,    *)
(* and then by the same successful fetch; the cached list has from 1 to 20 *)
(* records; a call whose fetch failed, and a /bonds cycle that failed,     *)
(* leave the cache and subscribed_users as they found them.                *)
(***************************************************************************)
C22_StateIntegrity ==
    /\ last_fetch_time = NoTime <=> last_bonds_data = NoData
    /\ last_bonds_data # NoData => Len(last_bonds_data) \in 1..MaxFetch
    /\ calls # <<>> =>
          IF LastCall.fetched_ok
          THEN /\ last_fetch_time = LastCall.at
               /\ Len(last_bonds_data) = LastCall.fetched_n
               /\ LastCall.bonds = Slice(last_bonds_data, LastCall.count)
          ELSE /\ last_fetch_time = LastCall.before_time
               /\ last_bonds_data = LastCall.before_data
    /\ BondsFailed =>
          /\ ~LastCall.fetched_ok /\ LastCall.fetches = 1
          /\ subscribed_users = handled.before

\* a /bonds cycle failed while a chat was subscribed and the cache held 20
\* records of an earlier fetch
C22_Witness ==
    /\ BondsFailed
    /\ subscribed_users # {}
    /\ Len(last_bonds_data) = MaxFetch
    /\ last_fetch_time < now

\* the count the claim gives for each /bonds text: the integer of the first
\* argument brought into 1..20, and 5 for no argument or one that is no
\* integer
ClaimedCount(command) ==
    CASE command \in {BondsZero, BondsNegative} -> 1
      [] command \in {BondsSeven, BondsPlusSeven} -> 7
      [] command \in {BondsTwenty, BondsTwentyOne, BondsHuge} -> 20
      [] command = BondsTwoBlanks -> 10
      [] command \in {BondsTwoArgs, BondsSuffix} -> 3
      [] command \in {CmdBonds, BondsWord, BondsFraction, BondsBlank} -> 5

(***************************************************************************)
(* C23: a /bonds command passes to get_bonds_data a count in 1..20: the    *)
(* integer argument brought into that range, or 5 with no integer          *)
(* argument; a fetch the command triggers asks for 5 to 20 records.        *)
(***************************************************************************)
C23_CountClamping ==
    handled.branch = "bonds" =>
        /\ handled.count \in 1..20
        /\ handled.count = ClaimedCount(handled.command)
        /\ LastCall.count = handled.count
        /\ LastCall.fetches = 1 =>
              /\ LastCall.fetch_count \in 5..20
              /\ LastCall.fetch_count >= handled.count
              /\ result.called /\ result.count = LastCall.fetch_count

\* /bonds 99999999999 was handled with count 20 and fetched 20 records
C23_Witness ==
    /\ handled.command = BondsHuge
    /\ handled.count = 20
    /\ LastCall.fetches = 1
    /\ LastCall.fetch_count = 20
    /\ LastCall.ok /\ Len(LastCall.bonds) = 20

\* the runs of format_bonds_message
MessageRuns == {i \in 1..Len(printed) : printed[i].style = "message"}

\* the decorations of the positions
Decorations == {"gold medal", "silver medal", "bronze medal", "medal"}

\* the lines of a message that open a block
Openers(lines) == {k \in 1..Len(lines) : lines[k] # <<>> /\ lines[k][1] \in Decorations}

\* the n-th of a set of line numbers
Nth(S, n) == CHOOSE x \in S : Cardinality({y \in S : y < x}) = n - 1

\* the lines of the n-th block: from its opener up to the next opener, or
\* to the closing line of the message
BlockLines(lines, n) ==
    {k \in 1..(Len(lines) - 1) :
        /\ k >= Nth(Openers(lines), n)
        /\ n < Cardinality(Openers(lines)) => k < Nth(Openers(lines), n + 1)}

\* the block has the line of the years to the offer
HasOfferLine(lines, n) ==
    \E k \in BlockLines(lines, n) : lines[k] # <<>> /\ lines[k][1] = "   To offer: "

(***************************************************************************)
(* C24: the message has one block per record, in the order of the list,    *)
(* numbered from 1, the first three with a decoration of their own and the *)
(* later ones with a common one; a block has the offer line exactly when   *)
(* its record has the years to the offer; for an empty or missing list the *)
(* message is the failure text alone.                                      *)
(***************************************************************************)
C24_MessageLayout ==
    \A r \in MessageRuns :
        IF printed[r].data = <<>>
        THEN /\ printed[r].lines = <<<<"Could not get the bonds data.">>>>
             /\ Openers(printed[r].lines) = {}
        ELSE /\ Cardinality(Openers(printed[r].lines)) = Len(printed[r].data)
             /\ \A n \in 1..Len(printed[r].data) :
                   /\ printed[r].lines[Nth(Openers(printed[r].lines), n)][3] = DigitChar(n)
                   /\ \E k \in BlockLines(printed[r].lines, n) :
                         printed[r].lines[k] =
                             <<"   Rating: ">> \o printed[r].data[n]["Rating"]
                   /\ HasOfferLine(printed[r].lines, n)
                          <=> "Years to Offer Str" \in DOMAIN printed[r].data[n]
                   /\ \A m \in 1..Len(printed[r].data) :
                         (printed[r].lines[Nth(Openers(printed[r].lines), n)][1]
                              = printed[r].lines[Nth(Openers(printed[r].lines), m)][1])
                           <=> (n = m \/ (n > 3 /\ m > 3))

\* a message of five records, the first and the last with the years to the
\* offer and the others without
C24_Witness ==
    \E r \in MessageRuns :
        /\ Len(printed[r].data) = 5
        /\ HasOfferLine(printed[r].lines, 1) /\ HasOfferLine(printed[r].lines, 5)
        /\ \A n \in 2..4 : ~HasOfferLine(printed[r].lines, n)
        /\ printed[r].lines[Nth(Openers(printed[r].lines), 5)][1] = "medal"

\* the update with an id, as it arrived
Ascending(ids) == \A i \in 1..(Len(ids) - 1) : ids[i] < ids[i + 1]

\* the ids of the updates the server still holds
Waiting == {inbox[i].update_id : i \in 1..Len(inbox)}

RunsOn(d) == {i \in DOMAIN daily.runs : DateTime(daily.runs[i]).day = d}

\* the first reading after the 10:00 minute of day d
MinuteOver(d) == d * 86400 + 36060

(***************************************************************************)
(* C26: on every day on which the loop of main runs during the 10:00       *)
(* minute, send_daily_updates is invoked exactly once, in that minute:     *)
(* never twice, and never skipped once the minute is over.                 *)
(***************************************************************************)
C26_DailySchedule ==
    \A d \in 0..(MaxDays - 1) :
        /\ Cardinality(RunsOn(d)) <= 1
        /\ \A i \in RunsOn(d) : IsTimeForDailyUpdate(daily.runs[i])
        /\ (daily.started # None /\ daily.started < MinuteOver(d) /\ now >= MinuteOver(d))
               => Cardinality(RunsOn(d)) = 1

(***************************************************************************)
(* C27: a pass of main that met a network error refreshed API_URL, and a   *)
(* pass that met none refreshed it only when more than 600 seconds had     *)
(* passed since the last refresh.                                          *)
(***************************************************************************)
C27_RefreshOnNetworkError ==
    /\ polled.neterror => polled.refreshed
    /\ (polled.refreshed /\ ~polled.neterror) => polled.gap > RefreshPeriod

\* the cache of get_bonds_data
Cache == <<last_fetch_time, last_bonds_data>>

(***************************************************************************)
(* C28: a step changes subscribed_users only when the command handled is   *)
(* /subscribe, which adds the chat of the sender, or /unsubscribe, which   *)
(* removes it; no other chat enters or leaves the set; the cache changes   *)
(* only when the command starts with /bonds.                               *)
(***************************************************************************)
C28_CommandFrame ==
    [][/\ subscribed_users' # subscribed_users =>
             \/ /\ handled'.command = CmdSubscribe
                /\ subscribed_users' = subscribed_users \cup {handled'.chat_id}
             \/ /\ handled'.command = CmdUnsubscribe
                /\ subscribed_users' = subscribed_users \ {handled'.chat_id}
       /\ \A c \in Chats \ {handled'.chat_id} :
             c \in subscribed_users' <=> c \in subscribed_users
       /\ Cache' # Cache => StartsWith(handled'.command, CmdBonds)]_vars

\* a chat left the set while another stays in it and the cache is filled
C28_Witness ==
    /\ handled.command = CmdUnsubscribe
    /\ handled.chat_id = 101
    /\ 101 \in handled.before
    /\ subscribed_users = {102}
    /\ last_bonds_data # NoData

\* the sends of the last run of send_daily_updates to the chat
AttemptsTo(chat_id) ==
    {i \in DOMAIN daily.last.attempts : daily.last.attempts[i].chat_id = chat_id}

(***************************************************************************)
(* C29: a run of send_daily_updates that found subscribers and got bonds   *)
(* tried one send to every subscriber and none to anyone else, whatever    *)
(* the sends before it returned; a run that got no bonds tried no send;    *)
(* and the step of the run leaves subscribed_users as it was.              *)
(***************************************************************************)
C29_DailyFanOut ==
    /\ [](/\ (daily.last.invoked /\ daily.last.users # {} /\ daily.last.ok) =>
                \A c \in Chats :
                    Cardinality(AttemptsTo(c)) = IF c \in daily.last.users THEN 1 ELSE 0
          /\ (daily.last.invoked /\ ~daily.last.ok) => daily.last.attempts = <<>>)
    /\ [][daily'.last # daily.last => subscribed_users' = subscribed_users]_vars

\* both chats are subscribed; the send to the first chat failed after its
\* retries and the second was still sent
C29_Witness ==
    /\ daily.last.invoked /\ daily.last.ok
    /\ daily.last.users = {101, 102}
    /\ subscribed_users = {101, 102}
    /\ Len(daily.last.attempts) = 2
    /\ daily.last.attempts[1].result = "None"
    /\ daily.last.attempts[2].result = "sent"

\* the site gave no bonds and nobody got a message
C29_WitnessNoData ==
    /\ daily.last.invoked /\ daily.last.fetched /\ ~daily.last.ok
    /\ daily.last.users # {}

====
